---- MODULE Spec2Model ----
(***************************************************************************)
(* Model of the SISEOA Raspberry Pi appliance controller                   *)
(* (src/Iot/rpi_appliance_controller.py): topology maps, per-building      *)
(* automation state, the device actuator, the rule-executor tick and the   *)
(* connectivity guard.                                                     *)
(***************************************************************************)
EXTENDS Integers, Sequences, FiniteSets, TLC

(***************************************************************************)
(* Bounds of the model.                                                    *)
(***************************************************************************)
\* the clock runs over 0..MaxTime minutes
MaxTime == 1
\* stands for MAX_EVENT_HISTORY (30 in the source): rolling length of a
\* device's event log
MaxEventHistory == 2

(***************************************************************************)
(* Program constants.                                                      *)
(***************************************************************************)
\* two of the GPIO-configured devices, in the iteration order of the dict
DEVICE_GPIO_CONFIG == <<"device1", "device6">>
Devices == {DEVICE_GPIO_CONFIG[i] : i \in 1..Len(DEVICE_GPIO_CONFIG)}
Wattage(d) == IF d = "device1" THEN 20 ELSE 1200

\* the buildings of the document store
Buildings == {"b1", "b2"}
BuildingOrder == <<"b1", "b2">>
\* "no building": the device -> location -> building join does not resolve
NoBuilding == "unresolved"
\* DeviceType field of the DEVICE documents
DeviceTypes == {"AC", "Light"}

\* Python values: a timestamp slot holds None, a datetime, or has no key
None == <<>>
At(t) == <<t>>
NoKey == <<0, 0>>
\* no key in a map of strings
NoType == "no-key"
\* building_automation_states has no key for the building
NoState == [exists |-> FALSE, mode |-> "none", locked |-> {}, devices |-> <<>>]

Times == 0..MaxTime
Statuses == {"ON", "OFF"}

\* BUILDINGAUTOMATION documents: absent, or {enabled, mode, modes}
NoDoc == [exists |-> FALSE, enabled |-> FALSE, mode |-> "none", toa |-> FALSE, eco |-> FALSE]
AutomationDocs ==
    { NoDoc,
      [exists |-> TRUE, enabled |-> TRUE,  mode |-> "turn-off-all", toa |-> TRUE,  eco |-> FALSE],
      [exists |-> TRUE, enabled |-> TRUE,  mode |-> "eco-mode",     toa |-> FALSE, eco |-> TRUE],
      [exists |-> TRUE, enabled |-> FALSE, mode |-> "turn-off-all", toa |-> TRUE,  eco |-> FALSE],
      [exists |-> TRUE, enabled |-> TRUE,  mode |-> "none",         toa |-> FALSE, eco |-> FALSE] }

\* the BUILDINGAUTOMATION collection as a reload reads it
StoredDocs == [Buildings -> AutomationDocs]

VARIABLES
    started,              \* __main__ has finished its set-up
    now,                  \* datetime.now(), in minutes
    firebase_connected,   \* global firebase_connected
    device_building_map,  \* global device_building_map (NoBuilding: no key)
    device_type_map,      \* global device_type_map (NoType: no key)
    building_automation_states, \* global building_automation_states (NoState: no key)
    automation_listeners, \* buildings with an on_snapshot listener
    device_on_timestamps, \* global device_on_timestamps (NoKey: no key)
    device_last_energy_update_time, \* global of that name (NoKey: no key)
    gpio,                 \* level of each device's channel
    event_history,        \* DEVICE/{d}/eventHistory, oldest first
    daily_usage,          \* ENERGYUSAGE/{d}/DailyUsage/{today}.Usage, in micro-kWh
    in_flight,            \* non-forced switch_device calls between check and actuation
    on_minutes,           \* minutes each device's channel has been high today
    event_docs,           \* DEVICE/{d}/eventHistory as the miner's query reads it
    rule_store,           \* AUTOMATIONRULE/{d}
    mined,                \* devices generate_automation_rules has analysed
    wall,                 \* <<day, hour>> of datetime.now() at the rule executor
    rule_calls,           \* per hour of today: the executor's tick and its calls
    tick_pending,         \* rule ticks between their skip checks and their call
    triggers,             \* the manual trigger records and what became of them
    accrual_tasks,        \* the periodic_update threads of each device
    probe,                \* position of the connection_check thread
    log_calls,            \* log_device_event calls between their read and their write
    events_logged,        \* eventHistory documents ever created, per device
    energy_threads,       \* position and locals of the threads that accrue energy
    last_mqtt_states,     \* bridge global last_mqtt_states
    bridge_on_timestamps, \* bridge global device_on_timestamps
    rtdb_status,          \* Devices/{d}/status in the real-time store
    rtdb_events,          \* changes of Devices/{d}/status not yet delivered to the bridge
    mqtt_control,         \* what the bridge has published on {d}/control
    bridge_ons,           \* ON reports the bridge has handled, per device
    bridge_usage          \* the ON reports the bridge has credited energy for

vars == <<started, now, firebase_connected,
          device_building_map, device_type_map, building_automation_states,
          automation_listeners, device_on_timestamps,
          device_last_energy_update_time, gpio, event_history, daily_usage,
          in_flight, on_minutes, event_docs, rule_store, mined, wall,
          rule_calls, tick_pending, triggers, accrual_tasks, probe,
          log_calls, events_logged, energy_threads, last_mqtt_states,
          bridge_on_timestamps, rtdb_status, rtdb_events, mqtt_control,
          bridge_ons, bridge_usage>>

\* what the device-control handlers leave alone: the miner's stores, the
\* rule executor's clock, the bookkeeping of the properties, and the
\* trigger records and the threads the handlers do not touch (workers)
\* the variables of the step-by-step threads and those of the MQTT bridge
racing == <<log_calls, events_logged, energy_threads>>
bridge == <<last_mqtt_states, bridge_on_timestamps, rtdb_status, rtdb_events,
            mqtt_control, bridge_ons, bridge_usage>>
workers == <<triggers, accrual_tasks, probe, racing, bridge>>
aux == <<on_minutes, event_docs, rule_store, mined, wall, rule_calls,
         tick_pending, workers>>

\* the controller's memory and its stores, as one record the operations
\* map; up tells whether the store calls of the operation succeed
Mem(up) == [up |-> up, now |-> now,
        conn |-> firebase_connected, map |-> device_building_map,
        types |-> device_type_map, bas |-> building_automation_states,
        on_ts |-> device_on_timestamps,
        last_ts |-> device_last_energy_update_time,
        gpio |-> gpio, events |-> event_history, usage |-> daily_usage]

Install(m) ==
    /\ firebase_connected' = m.conn
    /\ device_building_map' = m.map
    /\ device_type_map' = m.types
    /\ building_automation_states' = m.bas
    /\ device_on_timestamps' = m.on_ts
    /\ device_last_energy_update_time' = m.last_ts
    /\ gpio' = m.gpio
    /\ event_history' = m.events
    /\ daily_usage' = m.usage

(***************************************************************************)
(* Utility functions.                                                      *)
(***************************************************************************)
\* calculate_energy: round((watt / 1000) * (duration_min / 60), 6), in
\* micro-kWh: watt * min * 50 / 3 rounded to the nearest integer
calculate_energy(duration_min, watt) == (2 * watt * duration_min * 50 + 3) \div 6

\* a rolling append that trims only once the limit is exceeded
log_device_event_LateTrim(m, d, status) ==
    IF m.conn /\ m.up
    THEN LET old == m.events[d]
             kept == IF Len(old) > MaxEventHistory THEN Tail(old) ELSE old
         IN  [m EXCEPT !.events[d] = Append(kept, status)]
    ELSE m

\* log_device_event: rolling append, only while connected; a store error is
\* caught and the event is dropped
log_device_event(m, d, status) ==
    IF m.conn /\ m.up
    THEN LET old == m.events[d]
             kept == IF Len(old) >= MaxEventHistory THEN Tail(old) ELSE old
         IN  [m EXCEPT !.events[d] = Append(kept, status)]
    ELSE m

\* update_daily_energy: read-modify-write of today's usage; errors are caught
update_daily_energy(m, d, energy) ==
    IF m.up THEN [m EXCEPT !.usage[d] = @ + energy] ELSE m

\* the devices of a list, and membership in it
Range(seq) == {seq[i] : i \in 1..Len(seq)}

(***************************************************************************)
(* Device actuator.  The result is the memory after the call and what the  *)
(* call returned: "True", "False", or "KeyError" when it raised.           *)
(***************************************************************************)
\* a switch_device without the offline check of line 524
OfflineReject_Never(m, force) == FALSE

\* switch_device line 524: the store is known unreachable and force is false
OfflineReject(m, force) == ~m.conn /\ ~force

\* a switch_device without the lock check of lines 536-538
LockReject_Never(m, d, state, force) == FALSE

\* switch_device lines 532-537: the device is in its building's lock set,
\* the requested state is ON and force is false
LockReject(m, d, state, force) ==
    LET bs == m.bas[m.map[d]]
        locked_devices == IF bs.exists THEN bs.locked ELSE {}
    IN  ~force /\ d \in locked_devices /\ state = "ON"

\* switch_device lines 547-562: the ON branch
SwitchOn(m, d) ==
    log_device_event([m EXCEPT !.gpio[d] = "HIGH",
                               !.on_ts[d] = At(m.now),
                               !.last_ts[d] = At(m.now)], d, "ON")

\* switch_device lines 564-587: the OFF branch, for a device whose
\* timestamp slots exist
SwitchOff(m, d) ==
    LET on_time == m.on_ts[d]
        last_time == m.last_ts[d]
        m1 == log_device_event([m EXCEPT !.gpio[d] = "LOW",
                                         !.on_ts[d] = None,
                                         !.last_ts[d] = None], d, "OFF")
    IN  IF on_time # None /\ last_time # None
        THEN update_daily_energy(m1, d,
                 calculate_energy(m.now - last_time[1], Wattage(d)))
        ELSE m1

\* switch_device lines 524-543: the call passes the checks
SwitchAdmits(m, d, state, force) ==
    /\ ~OfflineReject(m, force)
    /\ m.map[d] # NoBuilding
    /\ ~LockReject(m, d, state, force)

\* switch_device lines 545-589: the actuation the checks guard
SwitchActuate(m, d, state) ==
    IF state = "ON" THEN [m |-> SwitchOn(m, d), ret |-> "True"]
    ELSE IF m.on_ts[d] = NoKey \/ m.last_ts[d] = NoKey
         \* the channel is already low when the dict lookup raises
         THEN [m |-> [m EXCEPT !.gpio[d] = "LOW"], ret |-> "KeyError"]
    ELSE [m |-> SwitchOff(m, d), ret |-> "True"]

switch_device(m, d, state, force) ==
    IF SwitchAdmits(m, d, state, force)
    THEN SwitchActuate(m, d, state)
    ELSE [m |-> m, ret |-> "False"]

(***************************************************************************)
(* Automation state machine.                                               *)
(***************************************************************************)
\* the command apply_building_automation receives (automation_data)
Command(mode, toa, eco) == [currentMode |-> mode, toa |-> toa, eco |-> eco]
ClearCommand == Command("none", FALSE, FALSE)

\* lines 621 and 648: which branch a command takes
IsLockdown(data) == data.toa \/ data.currentMode = "turn-off-all"
IsEco(data) == data.eco \/ data.currentMode = "eco-mode"

\* lines 625-644: the LOCKDOWN loop from position i of the member list; a
\* KeyError of switch_device leaves the loop at once
RECURSIVE LockdownLoop(_, _, _, _)
LockdownLoop(m, b, devs, i) ==
    IF i > Len(devs) THEN [m |-> m, ret |-> "None"]
    ELSE LET r == switch_device(m, devs[i], "OFF", TRUE)
         IN  IF r.ret = "KeyError" THEN r
             ELSE LockdownLoop([r.m EXCEPT !.bas[b].locked = @ \cup {devs[i]}],
                               b, devs, i + 1)

\* line 668: the device is of the high-draw type
IsAcDevice(m, d) == m.types[d] = "AC"

\* lines 657-676: the ECO loop from position i of the member list
RECURSIVE EcoLoop(_, _, _)
EcoLoop(m, devs, i) ==
    IF i > Len(devs) THEN [m |-> m, ret |-> "None"]
    ELSE IF IsAcDevice(m, devs[i])
         THEN LET r == switch_device(m, devs[i], "OFF", TRUE)
              IN  IF r.ret = "KeyError" THEN r ELSE EcoLoop(r.m, devs, i + 1)
         ELSE EcoLoop(m, devs, i + 1)

\* lines 652 and 684: automation_state["locked_devices"].clear()
ClearLocks(m, b) == [m EXCEPT !.bas[b].locked = {}]

\* apply_building_automation(building_id, automation_data)
apply_building_automation(m, b, data) ==
    IF ~m.conn THEN [m |-> m, ret |-> "offline"]
    ELSE IF ~m.bas[b].exists THEN [m |-> m, ret |-> "unknown"]
    ELSE LET m1 == [m EXCEPT !.bas[b].mode = data.currentMode]
             devs == m.bas[b].devices
         IN  IF IsLockdown(data) THEN LockdownLoop(m1, b, devs, 1)
             ELSE IF IsEco(data) THEN EcoLoop(ClearLocks(m1, b), devs, 1)
             ELSE [m |-> ClearLocks(m1, b), ret |-> "None"]

\* a conversion that does not look at the document's enabled flag
DocCommand_IgnoresEnabled(doc) ==
    IF doc.exists /\ doc.mode # "none"
    THEN Command(doc.mode, doc.toa, doc.eco) ELSE ClearCommand

\* on_automation_change lines 715-754 and reload lines 797-809: the command
\* a BUILDINGAUTOMATION document is converted to
ActiveDoc(doc) == doc.exists /\ doc.enabled /\ doc.mode # "none"
DocCommand(doc) ==
    IF ActiveDoc(doc) THEN Command(doc.mode, doc.toa, doc.eco) ELSE ClearCommand

\* create_automation_listener.on_automation_change
on_automation_change(m, b, doc) ==
    IF ~m.conn THEN [m |-> m, ret |-> "offline"]
    ELSE apply_building_automation(m, b, DocCommand(doc))

\* create_device_listener.listener
device_listener(m, d, data) ==
    IF ~m.conn THEN [m |-> m, ret |-> "offline"]
    ELSE switch_device(m, d, data, FALSE)

\* create_device_listener.listener: Devices/{d}/status when the handler has
\* finished.  The remote write left data there; switch_device writes the
\* state it has set (lines 557, 576), and after a rejected ON the listener
\* writes OFF back (line 771), unless the write fails
ListenerPublishes(m, d, data) ==
    IF ~m.conn THEN data
    ELSE LET success == switch_device(m, d, data, FALSE).ret
         IN  IF success = "False" /\ data = "ON"
             THEN IF m.up THEN "OFF" ELSE data
             ELSE data

(***************************************************************************)
(* Connectivity guard.                                                     *)
(***************************************************************************)
\* reload_all_automation_states, from position i of the building keys: a
\* document that is not active is skipped, an exception ends the loop
\* docs[b] is the BUILDINGAUTOMATION document the store holds for b
RECURSIVE ReloadLoop(_, _, _)
ReloadLoop(m, docs, i) ==
    IF i > Len(BuildingOrder) THEN m
    ELSE LET b == BuildingOrder[i]
         IN  IF m.bas[b].exists /\ ActiveDoc(docs[b])
             THEN LET r == apply_building_automation(m, b, DocCommand(docs[b]))
                  IN  IF r.ret = "KeyError" THEN r.m ELSE ReloadLoop(r.m, docs, i + 1)
             ELSE ReloadLoop(m, docs, i + 1)

reload_all_automation_states(m, docs) ==
    IF ~m.conn \/ ~m.up THEN m ELSE ReloadLoop(m, docs, 1)

\* a failing probe that leaves the building states in place
disable_all_automation_Keeps(m) == m

\* disable_all_automation: building_automation_states = {}
disable_all_automation(m) == [m EXCEPT !.bas = [b \in Buildings |-> NoState]]

\* one round of monitor_firebase_connection.connection_check
connection_check(m, docs) ==
    IF m.up
    THEN IF ~m.conn THEN reload_all_automation_states([m EXCEPT !.conn = TRUE], docs)
                    ELSE m
    ELSE IF m.conn THEN disable_all_automation([m EXCEPT !.conn = FALSE])
                   ELSE m

(***************************************************************************)
(* Topology directory.                                                     *)
(***************************************************************************)
\* the device whose DEVICE document the environment adds, moves and removes
HotPlugged == {"device1"}

\* the snapshots load_device_mappings can read: for each device, the
\* building its location resolves to (or NoBuilding) and its DeviceType; a
\* device that is not hot-plugged stays an AC unit of building b1
Topologies ==
    { t \in [bld : [Devices -> Buildings \cup {NoBuilding}],
             type : [Devices -> DeviceTypes]] :
        \A d \in Devices \ HotPlugged : t.bld[d] = "b1" /\ t.type[d] = "AC" }

\* line 509: the member list a new building state starts with
MembersOf(map, b) == SelectSeq(DEVICE_GPIO_CONFIG, LAMBDA d : map[d] = b)

\* load_device_mappings lines 469-488: a device that resolves is entered in
\* the three maps; one that does not resolve keeps the entry it had
LoadedMap(map, topo) ==
    [d \in Devices |-> IF topo.bld[d] # NoBuilding THEN topo.bld[d] ELSE map[d]]
LoadedTypes(types, topo) ==
    [d \in Devices |-> IF topo.bld[d] # NoBuilding THEN topo.type[d] ELSE types[d]]

\* load_device_mappings lines 503-510: states for buildings that have none
LoadedStates(bas, map) ==
    [b \in Buildings |->
        IF ~bas[b].exists /\ (\E d \in Devices : map[d] = b)
        THEN [exists |-> TRUE, mode |-> "none", locked |-> {},
              devices |-> MembersOf(map, b)]
        ELSE bas[b]]

load_device_mappings(m, topo) ==
    IF ~m.up THEN [m |-> m, ret |-> "False"]
    ELSE LET map == LoadedMap(m.map, topo)
         IN  [m |-> [m EXCEPT !.map = map,
                              !.types = LoadedTypes(m.types, topo),
                              !.bas = LoadedStates(m.bas, map)],
              ret |-> "True"]

\* list.remove(x) for a list without duplicates
ListRemove(seq, x) == SelectSeq(seq, LAMBDA y : y # x)

\* remove_device_mapping
remove_device_mapping(m, d) ==
    LET old_building == m.map[d]
        m1 == [m EXCEPT !.map[d] = NoBuilding, !.types[d] = NoType,
                        !.on_ts[d] = NoKey, !.last_ts[d] = NoKey]
    IN  IF old_building # NoBuilding /\ m.bas[old_building].exists
        THEN [m1 EXCEPT !.bas[old_building].devices = ListRemove(@, d),
                        !.bas[old_building].locked = @ \ {d}]
        ELSE m1

\* integrate_new_device: without a location it returns at once; with one,
\* location_doc.exists() calls a bool, and the TypeError is caught by the
\* function's own handler before any map is written
integrate_new_device(m, d, has_location) == m

\* update_device_mapping: without a location the device is removed; with
\* one, location_doc.exists() raises as in integrate_new_device
update_device_mapping(m, d, has_location) ==
    IF ~has_location THEN remove_device_mapping(m, d) ELSE m

\* setup_device_discovery_listener.on_device_change, for one change
on_device_change(m, kind, d, has_location) ==
    IF ~m.conn THEN m
    ELSE IF kind = "ADDED" THEN integrate_new_device(m, d, has_location)
    ELSE IF kind = "MODIFIED" THEN update_device_mapping(m, d, has_location)
    ELSE remove_device_mapping(m, d)

\* setup_device_refresh_trigger_listener.on_refresh_trigger, which runs
\* refresh_device_mappings
on_refresh_trigger(m, topo) ==
    IF ~m.conn THEN m ELSE load_device_mappings(m, topo).m

(***************************************************************************)
(* Rule executor.                                                          *)
(***************************************************************************)
\* what the stored rules ask of each device at one tick: "ON" or "OFF" when
\* an enabled rule has a stage boundary at the current hour, else "none"
RuleActions == [Devices -> {"none", "ON", "OFF"}]

\* execute_automation_rules lines 330-343: the tick skips the device
RuleSkips(m, d) ==
    \/ m.map[d] = NoBuilding
    \/ LET bs == m.bas[m.map[d]]
       IN  bs.exists /\ (bs.mode # "none" \/ d \in bs.locked)

\* execute_automation_rules lines 329-366, from position i of the device
\* keys; an exception (store read, KeyError) is caught per device
RECURSIVE RuleLoop(_, _, _)
RuleLoop(m, acts, i) ==
    IF i > Len(DEVICE_GPIO_CONFIG) THEN m
    ELSE LET d == DEVICE_GPIO_CONFIG[i]
         IN  IF RuleSkips(m, d) \/ ~m.up \/ acts[d] = "none"
             THEN RuleLoop(m, acts, i + 1)
             ELSE RuleLoop(switch_device(m, d, acts[d], FALSE).m, acts, i + 1)

execute_automation_rules(m, acts) ==
    IF ~m.conn THEN m ELSE RuleLoop(m, acts, 1)

(***************************************************************************)
(* Pattern miner.  A timestamp is a number of minutes; an eventHistory     *)
(* collection is the set of its documents, each with a status and a        *)
(* timestamp (the stored hour is the timestamp's hour, line 97).  The      *)
(* miner's range query returns the documents oldest first.                 *)
(***************************************************************************)
MinutesPerHour == 60
HoursPerDay == 24
MinutesPerDay == HoursPerDay * MinutesPerHour
\* line 180: timedelta(days=7)
WindowDays == 7
\* line 191: len(events) < 4
MinEvents == 4
\* line 13
MAX_STAGES_PER_DAY == 3
MINIMUM_STAGE_GAP_MINUTES == 15

\* the instant at hour h, minute mi of the day-th day
Clock(day, h, mi) == day * MinutesPerDay + h * MinutesPerHour + mi

\* timestamp.strftime("%A"), day 0 being a Monday
DayNames == <<"Monday", "Tuesday", "Wednesday", "Thursday", "Friday",
              "Saturday", "Sunday">>
DayName(ts) == DayNames[((ts \div MinutesPerDay) % Len(DayNames)) + 1]
\* timestamp.hour
HourOf(ts) == (ts % MinutesPerDay) \div MinutesPerHour
\* f"{hour:02d}:00" and strftime("%H:00"): the digits of HH:MM
HourLabel(h) == <<h \div 10, h % 10, 0, 0>>
NoLabel == <<>>

Event(status, ts) == [status |-> status, timestamp |-> ts]

\* sorted(events, key=timestamp), and the order the range query returns
RECURSIVE SortedEvents(_)
SortedEvents(events) ==
    IF events = {} THEN <<>>
    ELSE LET first == CHOOSE e \in events :
                          \A o \in events : e.timestamp <= o.timestamp
         IN  <<first>> \o SortedEvents(events \ {first})

\* a comparison that starts a new session already at a gap equal to the
\* threshold
GapMerges_Strict(time_diff, gap_minutes) == time_diff < gap_minutes

\* line 162: the event joins the current session
GapMerges(time_diff, gap_minutes) == time_diff <= gap_minutes

\* the sessions list after a session is closed (lines 166-167, 171-172)
Closed(sessions, current_session) ==
    IF Len(current_session) >= 2 THEN Append(sessions, current_session)
    ELSE sessions

\* group_events_into_sessions lines 154-172, from position i of the sorted
\* events
RECURSIVE GroupLoop(_, _, _, _, _)
GroupLoop(evs, i, current_session, sessions, gap_minutes) ==
    IF i > Len(evs) THEN Closed(sessions, current_session)
    ELSE LET event == evs[i]
         IN  IF current_session = <<>>
             THEN GroupLoop(evs, i + 1, <<event>>, sessions, gap_minutes)
             ELSE LET last_event == current_session[Len(current_session)]
                      time_diff == event.timestamp - last_event.timestamp
                  IN  IF GapMerges(time_diff, gap_minutes)
                      THEN GroupLoop(evs, i + 1,
                                     Append(current_session, event),
                                     sessions, gap_minutes)
                      ELSE GroupLoop(evs, i + 1, <<event>>,
                                     Closed(sessions, current_session),
                                     gap_minutes)

group_events_into_sessions(events, gap_minutes) ==
    IF events = {} THEN <<>>
    ELSE GroupLoop(SortedEvents(events), 1, <<>>, <<>>, gap_minutes)

\* a miner that keeps the stages whose start and end are the same hour
SessionStage_KeepsDegenerate(session) ==
    LET on_events == {session[i] : i \in {j \in 1..Len(session) :
                                           session[j].status = "ON"}}
        off_events == {session[i] : i \in {j \in 1..Len(session) :
                                            session[j].status = "OFF"}}
    IN  IF on_events = {} \/ off_events = {} THEN <<>>
        ELSE LET session_start == CHOOSE e \in on_events :
                     \A o \in on_events : e.timestamp <= o.timestamp
                 session_end == CHOOSE e \in off_events :
                     \A o \in off_events : e.timestamp >= o.timestamp
             IN  <<[start |-> HourLabel(HourOf(session_start.timestamp)),
                    end |-> HourLabel(HourOf(session_end.timestamp))]>>

\* analyze_device_patterns_multi_stage lines 239-255: the stage a session
\* gives, if any
SessionStage(session) ==
    LET on_events == {session[i] : i \in {j \in 1..Len(session) :
                                           session[j].status = "ON"}}
        off_events == {session[i] : i \in {j \in 1..Len(session) :
                                            session[j].status = "OFF"}}
    IN  IF on_events = {} \/ off_events = {} THEN <<>>
        ELSE LET session_start == CHOOSE e \in on_events :
                     \A o \in on_events : e.timestamp <= o.timestamp
                 session_end == CHOOSE e \in off_events :
                     \A o \in off_events : e.timestamp >= o.timestamp
                 start_time == HourLabel(HourOf(session_start.timestamp))
                 end_time == HourLabel(HourOf(session_end.timestamp))
             IN  IF start_time # end_time
                 THEN <<[start |-> start_time, end |-> end_time]>>
                 ELSE <<>>

\* lines 238-255: the stages of a day's sessions
RECURSIVE StagesOf(_, _)
StagesOf(sessions, i) ==
    IF i > Len(sessions) THEN <<>>
    ELSE SessionStage(sessions[i]) \o StagesOf(sessions, i + 1)

\* an AUTOMATIONRULE document: a multi-stage rule has schedules (day ->
\* stages), a legacy rule has start, end and days; NoRule: no document
NoSchedules == [day \in {} |-> <<>>]
NoRule == [exists |-> FALSE, enabled |-> FALSE, multiStage |-> FALSE,
           schedules |-> NoSchedules, start |-> NoLabel, end |-> NoLabel,
           days |-> {}]

\* a miner whose rules are live as soon as they are written
NewRule_Enabled(schedules) ==
    [exists |-> TRUE, enabled |-> TRUE, multiStage |-> TRUE,
     schedules |-> schedules, start |-> NoLabel, end |-> NoLabel,
     days |-> {}]

\* lines 273-288: the pattern the miner returns
NewRule(schedules) ==
    [exists |-> TRUE, enabled |-> FALSE, multiStage |-> TRUE,
     schedules |-> schedules, start |-> NoLabel, end |-> NoLabel,
     days |-> {}]

\* lines 179-187: the documents of the last seven days
EventWindow(docs, end_time) ==
    {e \in docs : /\ e.timestamp >= end_time - WindowDays * MinutesPerDay
                  /\ e.timestamp <= end_time}

\* a miner that gives a day without stages an empty entry
DayEntry_OwnOnly(own_stages, best_stages) == own_stages

\* line 276, day_schedules.get(day, best_stages): own_stages is <<>> when
\* the day is not a key of day_schedules
DayEntry(own_stages, best_stages) ==
    IF own_stages # <<>> THEN own_stages ELSE best_stages

\* analyze_device_patterns_multi_stage; NoRule stands for None
analyze_device_patterns_multi_stage(docs, end_time) ==
    LET events == EventWindow(docs, end_time)
    IN  IF Cardinality(events) < MinEvents THEN NoRule
        ELSE
        LET active_days == {DayName(e.timestamp) : e \in events}
            daily_patterns ==
                [day \in active_days |->
                    {e \in events : DayName(e.timestamp) = day}]
            DayStages(day) ==
                IF Cardinality(daily_patterns[day]) < 2 THEN <<>>
                ELSE StagesOf(group_events_into_sessions(
                         daily_patterns[day], MINIMUM_STAGE_GAP_MINUTES), 1)
            \* the keys of day_schedules
            scheduled == {day \in active_days : DayStages(day) # <<>>}
            \* dictionaries keep insertion order: a day is entered when
            \* its first event is read
            FirstSeen(day) ==
                CHOOSE t \in {e.timestamp : e \in daily_patterns[day]} :
                    \A e \in daily_patterns[day] : t <= e.timestamp
        IN  IF scheduled = {} THEN NoRule
            ELSE
            LET Count(day) == Cardinality(daily_patterns[day])
                \* max(...) returns the first of the largest
                most_common_day == CHOOSE day \in scheduled :
                    \A o \in scheduled :
                        \/ Count(day) > Count(o)
                        \/ Count(day) = Count(o) /\ FirstSeen(day) <= FirstSeen(o)
                best_stages == DayStages(most_common_day)
            IN  NewRule([day \in active_days |->
                            DayEntry(DayStages(day), best_stages)])

\* a miner that writes with merge and leaves a stored enabled flag alone
generate_automation_rules_Merges(store, docs, map, end_time, up) ==
    [d \in Devices |->
        LET pattern == analyze_device_patterns_multi_stage(docs[d], end_time)
        IN  IF up /\ map[d] # NoBuilding /\ pattern.exists
            THEN IF store[d].exists
                 THEN [pattern EXCEPT !.enabled = store[d].enabled]
                 ELSE pattern
            ELSE store[d]]

\* generate_automation_rules: the rule store it leaves; a store error
\* makes the analysis return None or the write fail, and is caught
generate_automation_rules(store, docs, map, end_time, up) ==
    [d \in Devices |->
        LET pattern == analyze_device_patterns_multi_stage(docs[d], end_time)
        IN  IF up /\ map[d] # NoBuilding /\ pattern.exists
            THEN pattern ELSE store[d]]

(***************************************************************************)
(* Rule executor over the stored rules.  A tick has the hour label and the *)
(* day name of datetime.now(); the result is the memory after the tick,    *)
(* the switch_device calls it made, in order, and the devices whose rule   *)
(* could not be read.                                                      *)
(***************************************************************************)
\* a comparison that holds for every boundary a stage has
BoundaryMatch_Always(current_hour, boundary) == boundary # NoLabel

\* lines 388, 391, 404, 407: current_hour == start_time / end_time
BoundaryMatch(current_hour, boundary) == current_hour = boundary

\* lines 388-393 and 404-409: what one stage asks for at current_hour
StageCall(start_time, end_time, current_hour) ==
    IF BoundaryMatch(current_hour, start_time) THEN <<"ON">>
    ELSE IF BoundaryMatch(current_hour, end_time) THEN <<"OFF">>
    ELSE <<>>

\* execute_multi_stage_rule lines 384-393, from position i of the stages
RECURSIVE StageLoop(_, _, _)
StageLoop(stages, i, current_hour) ==
    IF i > Len(stages) THEN <<>>
    ELSE StageCall(stages[i].start, stages[i].end, current_hour)
             \o StageLoop(stages, i + 1, current_hour)

\* execute_multi_stage_rule: the states it passes to switch_device
execute_multi_stage_rule(rule_data, current_hour, current_day) ==
    IF current_day \notin DOMAIN rule_data.schedules THEN <<>>
    ELSE StageLoop(rule_data.schedules[current_day], 1, current_hour)

\* execute_single_stage_rule: the states it passes to switch_device
execute_single_stage_rule(rule_data, current_hour, current_day) ==
    IF current_day \notin rule_data.days THEN <<>>
    ELSE StageCall(rule_data.start, rule_data.end, current_hour)

\* lines 345-363 for a rule that has been read
RuleRequests(rule_data, current_hour, current_day) ==
    IF ~rule_data.exists \/ ~rule_data.enabled THEN <<>>
    ELSE IF rule_data.multiStage
         THEN execute_multi_stage_rule(rule_data, current_hour, current_day)
         ELSE execute_single_stage_rule(rule_data, current_hour, current_day)

\* the calls of one rule, from position i of its requests; a call that
\* raises ends the rule (line 365)
RECURSIVE CallLoop(_, _, _, _)
CallLoop(m, d, requests, i) ==
    IF i > Len(requests) THEN m
    ELSE LET r == switch_device(m, d, requests[i], FALSE)
         IN  IF r.ret = "KeyError" THEN r.m
             ELSE CallLoop(r.m, d, requests, i + 1)

\* lines 345-366 for device d: the rule is read and executed
ExecuteRule(t, store, d, current_hour, current_day) ==
    IF ~t.m.up THEN [t EXCEPT !.errors = @ \cup {d}]
    ELSE LET requests == RuleRequests(store[d], current_hour, current_day)
         IN  [m |-> CallLoop(t.m, d, requests, 1),
              calls |-> t.calls \o [i \in 1..Len(requests) |-> <<d, requests[i]>>],
              errors |-> t.errors]

\* lines 329-366, from position i of the device keys
RECURSIVE StoredRuleLoop(_, _, _, _, _)
StoredRuleLoop(t, store, i, current_hour, current_day) ==
    IF i > Len(DEVICE_GPIO_CONFIG) THEN t
    ELSE LET d == DEVICE_GPIO_CONFIG[i]
         IN  IF RuleSkips(t.m, d)
             THEN StoredRuleLoop(t, store, i + 1, current_hour, current_day)
             ELSE StoredRuleLoop(ExecuteRule(t, store, d, current_hour, current_day),
                                 store, i + 1, current_hour, current_day)

\* execute_automation_rules on the AUTOMATIONRULE collection
execute_stored_rules(m, store, current_hour, current_day) ==
    LET t == [m |-> m, calls |-> <<>>, errors |-> {}]
    IN  IF ~m.conn THEN t
        ELSE StoredRuleLoop(t, store, 1, current_hour, current_day)

(***************************************************************************)
(* The state machine.  Every action is one handler, run to completion.  A  *)
(* store outage begins and ends between handlers: the probe is the one     *)
(* that meets it (up = FALSE); the operators keep the parameter.           *)
(***************************************************************************)
\* the hours of the day the rule executor's clock is followed through
MaxHour == 3
Hours == 0..(MaxHour - 1)
\* no tick yet in any hour of today: for each hour, whether the tick has
\* run, the switch_device calls it made and the devices whose rule it could
\* not read
NoCalls == [h \in Hours |-> [ticked |-> FALSE, calls |-> <<>>, errors |-> {}]]

\* the manual trigger records the web application can add: collection and
\* document id
MaxTriggers == 1
TriggerKinds == {"schedule", "refresh", "clear"}
TriggerRecords == TriggerKinds \X (1..MaxTriggers)
\* no record is stored, none is on its way to a listener, no action has run
NoTriggers ==
    [r \in TriggerRecords |-> [stored |-> FALSE, pending |-> FALSE, runs |-> 0]]
\* the devices of the MQTT bridge (DEVICES) and an absent status
BridgeDevices == {"device1", "device2"}
NoStatus == "None"

\* no log_device_event call and no accrual step is in progress
NoThreads == [t \in {} |-> <<>>]
RacingIdle ==
    /\ log_calls = {}
    /\ events_logged = [d \in Devices |-> 0]
    /\ energy_threads = NoThreads

\* the bridge is not running
BridgeIdle ==
    /\ last_mqtt_states = [d \in BridgeDevices |-> NoStatus]
    /\ bridge_on_timestamps = [d \in BridgeDevices |-> None]
    /\ rtdb_status = [d \in BridgeDevices |-> NoStatus]
    /\ rtdb_events = [d \in BridgeDevices |-> <<>>]
    /\ mqtt_control = [d \in BridgeDevices |-> <<>>]
    /\ bridge_ons = [d \in BridgeDevices |-> 0]
    /\ bridge_usage = [d \in BridgeDevices |-> <<>>]

\* no periodic_update thread is alive, none has ended in an exception
NoTasks == [d \in Devices |-> [live |-> 0, raised |-> 0]]

WorkersIdle ==
    /\ triggers = NoTriggers
    /\ accrual_tasks = NoTasks
    /\ probe = "idle"
    /\ RacingIdle
    /\ BridgeIdle

\* the miner's stores are empty, the rule executor has not run
AuxIdle ==
    /\ on_minutes = [d \in Devices |-> 0]
    /\ event_docs = [d \in Devices |-> {}]
    /\ rule_store = [d \in Devices |-> NoRule]
    /\ mined = {}
    /\ wall = <<1, 0>>
    /\ rule_calls = NoCalls
    /\ tick_pending = {}
    /\ WorkersIdle

\* the stores and the threads that only the later specifications follow hold
\* one value in a specification that leaves them alone
Unfollowed == "-"

StoresUnfollowed ==
    /\ on_minutes = Unfollowed
    /\ event_docs = Unfollowed
    /\ rule_store = Unfollowed
    /\ mined = Unfollowed
    /\ wall = Unfollowed
    /\ rule_calls = Unfollowed
    /\ tick_pending = Unfollowed
    /\ triggers = Unfollowed
    /\ accrual_tasks = Unfollowed
    /\ probe = Unfollowed
    /\ log_calls = Unfollowed
    /\ events_logged = Unfollowed
    /\ energy_threads = Unfollowed

BridgeUnfollowed ==
    /\ last_mqtt_states = Unfollowed
    /\ bridge_on_timestamps = Unfollowed
    /\ rtdb_status = Unfollowed
    /\ rtdb_events = Unfollowed
    /\ mqtt_control = Unfollowed
    /\ bridge_ons = Unfollowed
    /\ bridge_usage = Unfollowed

\* the controller's memory before main() has run
Constructed ==
    /\ started = FALSE
    /\ now = 0
    /\ firebase_connected = TRUE
    /\ device_building_map = [d \in Devices |-> NoBuilding]
    /\ device_type_map = [d \in Devices |-> NoType]
    /\ building_automation_states = [b \in Buildings |-> NoState]
    /\ automation_listeners = {}
    /\ device_on_timestamps = [d \in Devices |-> None]
    /\ device_last_energy_update_time = [d \in Devices |-> None]
    /\ gpio = [d \in Devices |-> "LOW"]
    /\ event_history = [d \in Devices |-> <<>>]
    /\ daily_usage = [d \in Devices |-> 0]
    /\ in_flight = {}

Init ==
    /\ StoresUnfollowed
    /\ BridgeUnfollowed
    /\ Constructed

\* the topologies the store holds when the controller starts: every device
\* that resolves is in building b1
StartTopologies == { t \in Topologies : \A d \in Devices : t.bld[d] # "b2" }

\* __main__: the initial load, the building listeners, the initial reload
Startup(topo, docs) ==
    /\ ~started
    /\ LET r == load_device_mappings(Mem(TRUE), topo)
       IN  /\ Install(reload_all_automation_states(r.m, docs))
           /\ automation_listeners' = {b \in Buildings : r.m.bas[b].exists}
    /\ started' = TRUE
    /\ UNCHANGED <<now, in_flight, aux>>

\* a minute passes
ClockTick ==
    /\ now < MaxTime /\ now' = now + 1
    /\ UNCHANGED <<started, firebase_connected, device_building_map,
                   device_type_map, building_automation_states,
                   automation_listeners, device_on_timestamps,
                   device_last_energy_update_time, gpio, event_history,
                   daily_usage, in_flight, aux>>

\* one round of the liveness probe; docs is read only on recovery
Probe(up, docs) ==
    /\ Install(connection_check(Mem(up), docs))
    /\ UNCHANGED <<started, now, automation_listeners, in_flight, aux>>

\* the BUILDINGAUTOMATION document of b is written (or deleted) and the
\* snapshot reaches the building's listener
BuildingIntent(b, doc) ==
    /\ started /\ b \in automation_listeners
    /\ Install(on_automation_change(Mem(TRUE), b, doc).m)
    /\ UNCHANGED <<started, now, automation_listeners, in_flight, aux>>

\* Devices/{d}/status is written in the real-time store
DeviceIntent(d, data) ==
    /\ started
    /\ Install(device_listener(Mem(TRUE), d, data).m)
    /\ UNCHANGED <<started, now, automation_listeners, in_flight, aux>>

\* the hourly run of execute_automation_rules
RuleTick(acts) ==
    /\ started
    /\ Install(execute_automation_rules(Mem(TRUE), acts))
    /\ UNCHANGED <<started, now, automation_listeners, in_flight, aux>>

\* a change of the DEVICE collection reaches on_device_change
DeviceChange(kind, d, has_location) ==
    /\ started
    /\ Install(on_device_change(Mem(TRUE), kind, d, has_location))
    /\ UNCHANGED <<started, now, automation_listeners, in_flight, aux>>

\* a REFRESH_DEVICES trigger reaches on_refresh_trigger
RefreshTrigger(topo) ==
    /\ started
    /\ Install(on_refresh_trigger(Mem(TRUE), topo))
    /\ UNCHANGED <<started, now, automation_listeners, in_flight, aux>>

\* the inputs that can make a difference to the probe and to the tick
ProbeDocs(up) ==
    IF up /\ ~firebase_connected THEN StoredDocs ELSE {[b \in Buildings |-> NoDoc]}
TickActions == IF firebase_connected THEN RuleActions ELSE {[d \in Devices |-> "none"]}

Next ==
    \/ \E topo \in StartTopologies, docs \in StoredDocs : Startup(topo, docs)
    \/ ClockTick
    \/ \E up \in BOOLEAN : \E docs \in ProbeDocs(up) : Probe(up, docs)
    \/ \E b \in Buildings, doc \in AutomationDocs : BuildingIntent(b, doc)
    \/ \E d \in Devices, data \in Statuses : DeviceIntent(d, data)
    \/ \E acts \in TickActions : RuleTick(acts)
    \/ \E kind \in {"ADDED", "MODIFIED", "REMOVED"}, d \in HotPlugged,
          has_location \in BOOLEAN : DeviceChange(kind, d, has_location)
    \/ \E topo \in Topologies : RefreshTrigger(topo)

Spec == Init /\ [][Next]_vars

(***************************************************************************)
(* The same handlers as threads: a non-forced switch_device call (from a   *)
(* device listener or a rule tick) can be overtaken between its checks     *)
(* and its actuation, since the source holds no lock.                      *)
(***************************************************************************)
\* calls that may be between check and actuation at one time
MaxInFlight == 1
\* the requested states of the calls that are followed step by step
SteppedStates == {"ON"}

\* lines 524-543 of a non-forced call pass
SwitchBegin(d, state) ==
    /\ started /\ firebase_connected
    /\ Cardinality(in_flight) < MaxInFlight
    /\ SwitchAdmits(Mem(TRUE), d, state, FALSE)
    /\ in_flight' = in_flight \cup {<<d, state>>}
    /\ UNCHANGED <<started, now, firebase_connected, device_building_map,
                   device_type_map, building_automation_states,
                   automation_listeners, device_on_timestamps,
                   device_last_energy_update_time, gpio, event_history,
                   daily_usage, aux>>

\* lines 545-589 of that call run
SwitchEnd(d, state) ==
    /\ <<d, state>> \in in_flight
    /\ Install(SwitchActuate(Mem(TRUE), d, state).m)
    /\ in_flight' = in_flight \ {<<d, state>>}
    /\ UNCHANGED <<started, now, automation_listeners, aux>>

NextConc ==
    \/ Next
    \/ \E d \in Devices, state \in SteppedStates : SwitchBegin(d, state)
    \/ \E d \in Devices, state \in SteppedStates : SwitchEnd(d, state)

SpecConc == Init /\ [][NextConc]_vars

(***************************************************************************)
(* The miner alone: the controller is running with its topology loaded,    *)
(* the event histories are given, and the weekly job, the manual trigger   *)
(* and the external opt-in act on the rule store.                          *)
(***************************************************************************)
\* the memory of lines 49-63
InitialMemory ==
    [up |-> TRUE, now |-> 0, conn |-> TRUE,
     map |-> [d \in Devices |-> NoBuilding],
     types |-> [d \in Devices |-> NoType],
     bas |-> [b \in Buildings |-> NoState],
     on_ts |-> [d \in Devices |-> None],
     last_ts |-> [d \in Devices |-> None],
     gpio |-> [d \in Devices |-> "LOW"],
     events |-> [d \in Devices |-> <<>>],
     usage |-> [d \in Devices |-> 0]]

\* the controller at time t, started on topology topo with no automation
\* stored
StartedWith(topo, t) ==
    LET m == load_device_mappings([InitialMemory EXCEPT !.now = t], topo).m
    IN  /\ started = TRUE
        /\ now = t
        /\ firebase_connected = m.conn
        /\ device_building_map = m.map
        /\ device_type_map = m.types
        /\ building_automation_states = m.bas
        /\ automation_listeners = {m.map[d] : d \in Devices} \ {NoBuilding}
        /\ device_on_timestamps = m.on_ts
        /\ device_last_energy_update_time = m.last_ts
        /\ gpio = m.gpio
        /\ event_history = m.events
        /\ daily_usage = m.usage
        /\ in_flight = {}

\* the weekly job runs on the Sunday that ends the first week, at 02:00
\* (line 876)
MineTime == Clock(WindowDays - 1, 2, 0) + MinutesPerDay

\* the instants at which the histories below have events: one before the
\* window, a morning with gaps of 10, 15, 40 and 30 minutes, and the next
\* morning
Instants ==
    {Clock(0, 1, 0), Clock(1, 7, 55), Clock(1, 8, 5), Clock(1, 8, 20),
     Clock(1, 9, 0), Clock(1, 9, 30), Clock(2, 7, 55), Clock(2, 8, 5)}

GridHistories ==
    { {Event(f[t], t) : t \in {u \in Instants : f[u] # "none"}} :
        f \in [Instants -> {"ON", "OFF", "none"}] }

\* a week with ON at 08:00 and OFF at 18:00 on each of its days
WeeklyHistory ==
    {Event("ON", Clock(day, 8, 0)) : day \in 0..(WindowDays - 1)}
        \cup {Event("OFF", Clock(day, 18, 0)) : day \in 0..(WindowDays - 1)}

\* events at minutes 0, 10 and 40 of a morning
SessionExample ==
    {Event("ON", Clock(1, 8, 0)), Event("OFF", Clock(1, 8, 10)),
     Event("ON", Clock(1, 8, 40))}

\* a morning with four sessions: 07:55-08:05 and 09:50-10:00 cross an
\* hour, 11:05-11:15 does not, and the last one has no OFF
StagedMorning ==
    {Event("ON", Clock(1, 7, 55)), Event("OFF", Clock(1, 8, 5)),
     Event("ON", Clock(1, 9, 50)), Event("OFF", Clock(1, 10, 0)),
     Event("ON", Clock(1, 11, 5)), Event("OFF", Clock(1, 11, 15)),
     Event("ON", Clock(1, 12, 0)), Event("ON", Clock(1, 12, 10))}

\* a day with four sessions that each cross an hour
FourStageDay ==
    {Event("ON", Clock(1, 7, 55)), Event("OFF", Clock(1, 8, 5)),
     Event("ON", Clock(1, 9, 50)), Event("OFF", Clock(1, 10, 0)),
     Event("ON", Clock(1, 11, 55)), Event("OFF", Clock(1, 12, 5)),
     Event("ON", Clock(1, 13, 50)), Event("OFF", Clock(1, 14, 0))}

MinerTopologies == { t \in StartTopologies : t.type["device1"] = "Light" }

InitMiner ==
    /\ \E topo \in MinerTopologies : StartedWith(topo, MineTime)
    /\ on_minutes = [d \in Devices |-> 0]
    /\ \E h1 \in GridHistories
                    \cup {WeeklyHistory, SessionExample, StagedMorning,
                          FourStageDay},
          h6 \in {{}, WeeklyHistory} :
          event_docs = [d \in Devices |-> IF d = "device1" THEN h1 ELSE h6]
    /\ rule_store = [d \in Devices |-> NoRule]
    /\ mined = {}
    /\ wall = <<1, 0>>
    /\ rule_calls = NoCalls
    /\ tick_pending = {}
    /\ WorkersIdle

\* what a run of generate_automation_rules does to the stores
MinerRuns(up) ==
    /\ rule_store' = generate_automation_rules(rule_store, event_docs,
                                               device_building_map, now, up)
    /\ mined' = mined \cup {d \in Devices : device_building_map[d] # NoBuilding}
    /\ UNCHANGED <<started, now, firebase_connected, device_building_map,
                   device_type_map, building_automation_states,
                   automation_listeners, device_on_timestamps,
                   device_last_energy_update_time, gpio, event_history,
                   daily_usage, in_flight, on_minutes, event_docs, wall,
                   rule_calls, tick_pending, workers>>

\* run_scheduler line 876: the weekly job
WeeklyMining(up) == MinerRuns(up)

\* on_scheduler_trigger and run_manual_scheduler: a trigger document is
\* added
ManualMining(up) == firebase_connected /\ MinerRuns(up)

\* the external opt-in: the web application enables a stored rule
OptIn(d) ==
    /\ rule_store[d].exists /\ ~rule_store[d].enabled
    /\ rule_store' = [rule_store EXCEPT ![d].enabled = TRUE]
    /\ UNCHANGED <<started, now, firebase_connected, device_building_map,
                   device_type_map, building_automation_states,
                   automation_listeners, device_on_timestamps,
                   device_last_energy_update_time, gpio, event_history,
                   daily_usage, in_flight, on_minutes, event_docs, mined,
                   wall, rule_calls, tick_pending, workers>>

NextMiner ==
    \/ \E up \in BOOLEAN : WeeklyMining(up)
    \/ \E up \in BOOLEAN : ManualMining(up)
    \/ \E d \in Devices : OptIn(d)

SpecMiner == InitMiner /\ [][NextMiner]_vars

(***************************************************************************)
(* Energy accounting alone: the controller is running, minutes pass,       *)
(* status writes reach the device listeners, and the periodic_update       *)
(* thread of a device that is on wakes up.  A store call of a handler may  *)
(* fail (up = FALSE); update_daily_energy catches the error.               *)
(***************************************************************************)
\* the minutes the energy accounting is followed through
MaxEnergyTime == 4
\* global periodic_interval_minutes
periodic_interval_minutes == 3

\* one round of the loop of periodic_update(d); the thread ends on a
\* KeyError when the timestamp slot has been deleted
periodic_update(m, d) ==
    IF m.on_ts[d] = NoKey \/ m.last_ts[d] = NoKey THEN m
    ELSE IF m.on_ts[d] # None /\ m.conn /\ m.last_ts[d] # None
    THEN LET elapsed_min == m.now - m.last_ts[d][1]
         IN  IF elapsed_min >= periodic_interval_minutes
             THEN [update_daily_energy(m, d,
                       calculate_energy(elapsed_min, Wattage(d)))
                     EXCEPT !.last_ts[d] = At(m.now)]
             ELSE m
    ELSE m

InitEnergy ==
    /\ \E topo \in MinerTopologies : StartedWith(topo, 0)
    /\ AuxIdle

\* a minute passes; a channel that is high has been high for it
MinutePasses ==
    /\ now < MaxEnergyTime /\ now' = now + 1
    /\ on_minutes' = [d \in Devices |->
                        IF gpio[d] = "HIGH" THEN on_minutes[d] + 1
                        ELSE on_minutes[d]]
    /\ UNCHANGED <<started, firebase_connected, device_building_map,
                   device_type_map, building_automation_states,
                   automation_listeners, device_on_timestamps,
                   device_last_energy_update_time, gpio, event_history,
                   daily_usage, in_flight, event_docs, rule_store, mined,
                   wall, rule_calls, tick_pending, workers>>

\* Devices/{d}/status is written while the store calls of the handler
\* succeed or fail
EnergyIntent(d, data, up) ==
    /\ Install(device_listener(Mem(up), d, data).m)
    /\ UNCHANGED <<started, now, automation_listeners, in_flight, aux>>

\* the periodic_update thread of d wakes up
PeriodicUpdate(d, up) ==
    /\ device_on_timestamps[d] \notin {None, NoKey}
    /\ Install(periodic_update(Mem(up), d))
    /\ UNCHANGED <<started, now, automation_listeners, in_flight, aux>>

NextEnergy ==
    \/ MinutePasses
    \/ \E d \in Devices, data \in Statuses, up \in BOOLEAN :
          EnergyIntent(d, data, up)
    \/ \E d \in Devices, up \in BOOLEAN : PeriodicUpdate(d, up)

SpecEnergy == InitEnergy /\ [][NextEnergy]_vars

(***************************************************************************)
(* The rule executor alone: the controller is running, the rule store      *)
(* holds rules, the hours pass, the hourly job runs at most once in an     *)
(* hour (schedule sets the next run an hour after each run), building      *)
(* intents arrive, and the web application enables a stored rule.          *)
(***************************************************************************)
\* the days the rule executor's clock is followed through
MaxDay == 2

\* strftime("%A") and strftime("%H:00") of the executor's clock
DayOf(day) == DayNames[(day % Len(DayNames)) + 1]
current_day == DayOf(wall[1])
current_hour == HourLabel(wall[2])

Stage(start_hour, end_hour) ==
    [start |-> HourLabel(start_hour), end |-> HourLabel(end_hour)]

\* a legacy single-stage rule document
LegacyRule(enabled, start_hour, end_hour, days) ==
    [exists |-> TRUE, enabled |-> enabled, multiStage |-> FALSE,
     schedules |-> NoSchedules, start |-> HourLabel(start_hour),
     end |-> HourLabel(end_hour), days |-> days]

\* the schedules of the stored multi-stage rules: one stage a day, two
\* stages that share a boundary, a stage that starts and ends in one hour
StoredSchedules ==
    { [day \in {DayOf(1), DayOf(2)} |->
          IF day = DayOf(1) THEN <<Stage(0, 2)>> ELSE <<Stage(1, 2)>>],
      [day \in {DayOf(1)} |-> <<Stage(0, 1), Stage(1, 2)>>],
      [day \in {DayOf(2)} |-> <<Stage(1, 1)>>] }

\* the AUTOMATIONRULE documents a device can have
StoredRules ==
    {NoRule}
      \cup {[NewRule(sch) EXCEPT !.enabled = en] :
                sch \in StoredSchedules, en \in BOOLEAN}
      \cup {LegacyRule(TRUE, 0, 1, {DayOf(1), DayOf(2)})}

InitRules ==
    /\ \E topo \in MinerTopologies : StartedWith(topo, 0)
    /\ on_minutes = [d \in Devices |-> 0]
    /\ event_docs = [d \in Devices |-> {}]
    /\ \E r1 \in StoredRules, r6 \in {NoRule, LegacyRule(TRUE, 1, 2, {DayOf(1)})} :
          rule_store = [d \in Devices |-> IF d = "device1" THEN r1 ELSE r6]
    /\ mined = {}
    /\ wall = <<1, 0>>
    /\ rule_calls = NoCalls
    /\ tick_pending = {}
    /\ WorkersIdle

\* the next hour begins; at midnight the day's record starts afresh
HourPasses ==
    /\ tick_pending = {}
    /\ IF wall[2] + 1 < MaxHour
       THEN wall' = <<wall[1], wall[2] + 1>> /\ UNCHANGED rule_calls
       ELSE /\ wall[1] < MaxDay
            /\ wall' = <<wall[1] + 1, 0>>
            /\ rule_calls' = NoCalls
    /\ UNCHANGED <<started, now, firebase_connected, device_building_map,
                   device_type_map, building_automation_states,
                   automation_listeners, device_on_timestamps,
                   device_last_energy_update_time, gpio, event_history,
                   daily_usage, in_flight, on_minutes, event_docs,
                   rule_store, mined, tick_pending, workers>>

\* run_scheduler line 879: the hourly job runs execute_automation_rules
ScheduledTick(up) ==
    /\ tick_pending = {}
    /\ ~rule_calls[wall[2]].ticked
    /\ LET t == execute_stored_rules(Mem(up), rule_store, current_hour,
                                     current_day)
       IN  /\ Install(t.m)
           /\ rule_calls' = [rule_calls EXCEPT ![wall[2]] =
                  [ticked |-> TRUE, calls |-> t.calls, errors |-> t.errors]]
    /\ UNCHANGED <<started, now, automation_listeners, in_flight,
                   on_minutes, event_docs, rule_store, mined, wall,
                   tick_pending, workers>>

\* the building intents that arrive while the rules run
RuleTimeDocs == {doc \in AutomationDocs : ~doc.exists \/ doc.enabled}

NextRules ==
    \/ HourPasses
    \/ \E up \in BOOLEAN : ScheduledTick(up)
    \/ \E b \in Buildings, doc \in RuleTimeDocs : BuildingIntent(b, doc)
    \/ \E d \in Devices : OptIn(d)

SpecRules == InitRules /\ [][NextRules]_vars

(***************************************************************************)
(* The same, with the hourly job as a thread: between the skip checks of   *)
(* a device (lines 329-343) and the execution of its rule (lines 345-363)  *)
(* the listeners can run, since the source holds no lock.  tick_pending    *)
(* holds the position of the job: the index of the device and whether its  *)
(* skip checks are still to run ("check") or have passed ("act").          *)
(***************************************************************************)
\* the position after device i
TickAdvance(i) ==
    IF i < Len(DEVICE_GPIO_CONFIG) THEN {<<i + 1, "check">>} ELSE {}

\* lines 320-327: the job starts while connected
TickBegin ==
    /\ tick_pending = {}
    /\ ~rule_calls[wall[2]].ticked
    /\ firebase_connected
    /\ tick_pending' = {<<1, "check">>}
    /\ rule_calls' = [rule_calls EXCEPT ![wall[2]].ticked = TRUE]
    /\ UNCHANGED <<started, now, firebase_connected, device_building_map,
                   device_type_map, building_automation_states,
                   automation_listeners, device_on_timestamps,
                   device_last_energy_update_time, gpio, event_history,
                   daily_usage, in_flight, on_minutes, event_docs,
                   rule_store, mined, wall, workers>>

\* lines 329-343 for the device at the job's position
TickCheck(i) ==
    /\ <<i, "check">> \in tick_pending
    /\ tick_pending' = IF RuleSkips(Mem(TRUE), DEVICE_GPIO_CONFIG[i])
                       THEN TickAdvance(i) ELSE {<<i, "act">>}
    /\ UNCHANGED <<started, now, firebase_connected, device_building_map,
                   device_type_map, building_automation_states,
                   automation_listeners, device_on_timestamps,
                   device_last_energy_update_time, gpio, event_history,
                   daily_usage, in_flight, on_minutes, event_docs,
                   rule_store, mined, wall, rule_calls, workers>>

\* lines 345-366 for that device
TickAct(i, up) ==
    /\ <<i, "act">> \in tick_pending
    /\ LET t == ExecuteRule([m |-> Mem(up),
                             calls |-> rule_calls[wall[2]].calls,
                             errors |-> rule_calls[wall[2]].errors],
                            rule_store, DEVICE_GPIO_CONFIG[i],
                            current_hour, current_day)
       IN  /\ Install(t.m)
           /\ rule_calls' = [rule_calls EXCEPT ![wall[2]] =
                  [ticked |-> TRUE, calls |-> t.calls, errors |-> t.errors]]
    /\ tick_pending' = TickAdvance(i)
    /\ UNCHANGED <<started, now, automation_listeners, in_flight,
                   on_minutes, event_docs, rule_store, mined, wall, workers>>

NextTick ==
    \/ NextRules
    \/ TickBegin
    \/ \E i \in 1..Len(DEVICE_GPIO_CONFIG) : TickCheck(i)
    \/ \E i \in 1..Len(DEVICE_GPIO_CONFIG), up \in BOOLEAN : TickAct(i, up)

SpecTick == InitRules /\ [][NextTick]_vars

(***************************************************************************)
(* The manual triggers: the web application adds a record to a trigger     *)
(* collection; the snapshot listener of the collection, if one is          *)
(* attached, gets the record as an ADDED change and starts the action.  A  *)
(* listener is attached by __main__, and its first snapshot carries every  *)
(* document the collection holds as an ADDED change.  No code deletes or   *)
(* marks a record.                                                         *)
(***************************************************************************)
\* the runs of one record's action that are followed
MaxTriggerRuns == 2

\* the collections __main__ attaches a listener to (line 1331); it never
\* calls setup_scheduler_trigger_listener, and nothing listens for a
\* request to clear a device's history
AttachedKinds == {"refresh"}

\* the memory after __main__ has run again on topology topo: the globals of
\* lines 54-63 and the channels start afresh, the stores keep their content
Restarted(m, topo) ==
    load_device_mappings([InitialMemory EXCEPT !.now = m.now,
                                               !.events = m.events,
                                               !.usage = m.usage], topo).m

InitTriggers ==
    /\ \E topo \in MinerTopologies : StartedWith(topo, 0)
    /\ AuxIdle

\* the web application adds a trigger record
AddTrigger(r) ==
    /\ ~triggers[r].stored
    /\ triggers' = [triggers EXCEPT ![r] =
           [stored |-> TRUE, pending |-> r[1] \in AttachedKinds, runs |-> 0]]
    /\ UNCHANGED <<started, now, firebase_connected, device_building_map,
                   device_type_map, building_automation_states,
                   automation_listeners, device_on_timestamps,
                   device_last_energy_update_time, gpio, event_history,
                   daily_usage, in_flight, on_minutes, event_docs,
                   rule_store, mined, wall, rule_calls, tick_pending,
                   accrual_tasks, probe, racing, bridge>>

\* on_refresh_trigger gets the ADDED change of a record and, if connected,
\* starts refresh_device_mappings
HandleRefreshTrigger(id, topo) ==
    /\ triggers[<<"refresh", id>>].pending
    /\ triggers[<<"refresh", id>>].runs < MaxTriggerRuns
    /\ Install(on_refresh_trigger(Mem(TRUE), topo))
    /\ triggers' = [triggers EXCEPT
           ![<<"refresh", id>>].pending = FALSE,
           ![<<"refresh", id>>].runs = IF firebase_connected THEN @ + 1 ELSE @]
    /\ UNCHANGED <<started, now, automation_listeners, in_flight,
                   on_minutes, event_docs, rule_store, mined, wall,
                   rule_calls, tick_pending, accrual_tasks, probe, racing, bridge>>

\* the process is started again: __main__ loads the topology and attaches
\* its listeners, whose first snapshot holds the stored records
ProcessRestart(topo) ==
    /\ started
    /\ LET m == Restarted(Mem(TRUE), topo)
       IN  /\ Install(m)
           /\ automation_listeners' = {b \in Buildings : m.bas[b].exists}
    /\ triggers' = [r \in TriggerRecords |->
           [triggers[r] EXCEPT
               !.pending = triggers[r].stored /\ r[1] \in AttachedKinds]]
    /\ UNCHANGED <<started, now, in_flight, on_minutes, event_docs,
                   rule_store, mined, wall, rule_calls, tick_pending,
                   accrual_tasks, probe, racing, bridge>>

NextTriggers ==
    \/ \E r \in TriggerRecords : AddTrigger(r)
    \/ \E id \in 1..MaxTriggers, topo \in Topologies :
          HandleRefreshTrigger(id, topo)
    \/ \E topo \in StartTopologies : ProcessRestart(topo)
    \/ \E up \in BOOLEAN : \E docs \in ProbeDocs(up) : Probe(up, docs)
    \/ \E d \in Devices, data \in Statuses : DeviceIntent(d, data)

SpecTriggers == InitTriggers /\ [][NextTriggers]_vars

(***************************************************************************)
(* The accrual threads: switch_device starts a periodic_update thread at   *)
(* every ON it carries out (line 562); the thread loops for ever (line     *)
(* 953) and ends only when a statement of its body raises.                 *)
(***************************************************************************)
\* the threads of one device that are followed
MaxTasks == 2

InitTasks ==
    /\ \E topo \in MinerTopologies : StartedWith(topo, 0)
    /\ AuxIdle

\* Devices/{d}/status is written: the listener runs, and an ON that is
\* carried out starts a thread
TaskIntent(d, data) ==
    /\ data = "ON" => accrual_tasks[d].live < MaxTasks
    /\ LET r == device_listener(Mem(TRUE), d, data)
       IN  /\ Install(r.m)
           /\ accrual_tasks' =
                  IF data = "ON" /\ r.ret = "True"
                  THEN [accrual_tasks EXCEPT ![d].live = @ + 1]
                  ELSE accrual_tasks
    /\ UNCHANGED <<started, now, automation_listeners, in_flight,
                   on_minutes, event_docs, rule_store, mined, wall,
                   rule_calls, tick_pending, triggers, probe, racing, bridge>>

\* a thread of d wakes up (lines 954-964): the lookup of a deleted slot
\* raises KeyError, which nothing catches, and the thread ends
TaskPoll(d) ==
    /\ accrual_tasks[d].live > 0
    /\ IF device_on_timestamps[d] = NoKey
       THEN /\ accrual_tasks' = [accrual_tasks EXCEPT ![d].live = @ - 1,
                                                      ![d].raised = @ + 1]
            /\ UNCHANGED <<firebase_connected, device_building_map,
                           device_type_map, building_automation_states,
                           device_on_timestamps,
                           device_last_energy_update_time, gpio,
                           event_history, daily_usage>>
       ELSE /\ Install(periodic_update(Mem(TRUE), d))
            /\ UNCHANGED accrual_tasks
    /\ UNCHANGED <<started, now, automation_listeners, in_flight,
                   on_minutes, event_docs, rule_store, mined, wall,
                   rule_calls, tick_pending, triggers, probe, racing, bridge>>

NextTasks ==
    \/ MinutePasses
    \/ \E d \in Devices, data \in Statuses : TaskIntent(d, data)
    \/ \E d \in Devices : TaskPoll(d)
    \/ \E kind \in {"ADDED", "MODIFIED", "REMOVED"}, d \in HotPlugged,
          has_location \in BOOLEAN : DeviceChange(kind, d, has_location)

SpecTasks == InitTasks /\ [][NextTasks]_vars

(***************************************************************************)
(* The connection guard as a thread: each round of connection_check writes *)
(* /test_connection (line 422) and then sleeps (line 435).  The write is a *)
(* blocking call made without a timeout; the store answers it, refuses it  *)
(* or leaves it unanswered.                                                *)
(***************************************************************************)
InitProbe ==
    /\ \E topo \in MinerTopologies : StartedWith(topo, 0)
    /\ AuxIdle

\* the variables a step of the guard thread leaves alone
ProbeFrame ==
    <<started, now, automation_listeners, in_flight, on_minutes, event_docs,
      rule_store, mined, wall, rule_calls, tick_pending, triggers,
      accrual_tasks, racing, bridge>>

\* line 422: the round begins, test_ref.set('alive') is called
ProbeWrite ==
    /\ probe = "idle"
    /\ probe' = "writing"
    /\ UNCHANGED <<firebase_connected, device_building_map, device_type_map,
                   building_automation_states, device_on_timestamps,
                   device_last_energy_update_time, gpio, event_history,
                   daily_usage, ProbeFrame>>

\* the write returns: lines 424-427, then the sleep
ProbeReturns(docs) ==
    /\ probe = "writing"
    /\ Install(connection_check(Mem(TRUE), docs))
    /\ probe' = "idle"
    /\ UNCHANGED ProbeFrame

\* the write raises: lines 429-433, then the sleep
ProbeFails ==
    /\ probe = "writing"
    /\ Install(connection_check(Mem(FALSE), [b \in Buildings |-> NoDoc]))
    /\ probe' = "idle"
    /\ UNCHANGED ProbeFrame

\* the write is left unanswered: the call of line 422 never comes back
ProbeStalls ==
    /\ probe = "writing"
    /\ probe' = "stalled"
    /\ UNCHANGED <<firebase_connected, device_building_map, device_type_map,
                   building_automation_states, device_on_timestamps,
                   device_last_energy_update_time, gpio, event_history,
                   daily_usage, ProbeFrame>>

\* a write in progress is answered or refused, unless it stalls
ProbeCompletes ==
    \/ \E docs \in ProbeDocs(TRUE) : ProbeReturns(docs)
    \/ ProbeFails

NextProbe ==
    \/ ProbeWrite
    \/ \E docs \in ProbeDocs(TRUE) : ProbeReturns(docs)
    \/ ProbeFails
    \/ ProbeStalls
    \/ \E b \in Buildings, doc \in AutomationDocs : BuildingIntent(b, doc)
    \/ \E d \in Devices, data \in Statuses : DeviceIntent(d, data)

\* the guard thread is scheduled: a round that can begin begins, and a
\* write that has not stalled comes to its end
SpecProbe ==
    /\ InitProbe /\ [][NextProbe]_vars
    /\ WF_vars(ProbeWrite)
    /\ WF_vars(ProbeCompletes)

(***************************************************************************)
(* log_device_event as the threads run it: the function reads the          *)
(* collection (lines 104-105), deletes the oldest document it has read     *)
(* when it has read MAX_EVENT_HISTORY or more (lines 108-110) and creates  *)
(* the new document (lines 114-115).  It is called by switch_device from   *)
(* the real-time listener threads and from the scheduler thread, and holds *)
(* no lock.  In this specification an entry of event_history is a          *)
(* document, with the identity the store gave it.                          *)
(***************************************************************************)
\* the documents created for one device that are followed
MaxLogged == 5

\* the threads that call switch_device: a listener of the real-time store
\* and the scheduler
LogThreads == {"listener", "scheduler"}

LogDoc(id, status) == [id |-> id, status |-> status]

InitLog ==
    /\ \E topo \in MinerTopologies : StartedWith(topo, 0)
    /\ AuxIdle

\* the variables log_device_event leaves alone
LogFrame ==
    <<started, now, firebase_connected, device_building_map, device_type_map,
      building_automation_states, automation_listeners, device_on_timestamps,
      device_last_energy_update_time, gpio, daily_usage, in_flight,
      on_minutes, event_docs, rule_store, mined, wall, rule_calls,
      tick_pending, triggers, accrual_tasks, probe, energy_threads, bridge>>

\* lines 90-105: a thread enters log_device_event and reads the collection
LogRead(thread, d, status) ==
    /\ firebase_connected
    /\ \A c \in log_calls : c.thread # thread
    /\ events_logged[d] + Cardinality({c \in log_calls : c.d = d}) < MaxLogged
    /\ log_calls' = log_calls \cup
           {[thread |-> thread, d |-> d, status |-> status,
             event_docs |-> event_history[d], pc |-> "read"]}
    /\ UNCHANGED <<event_history, events_logged, LogFrame>>

\* lines 108-110: the oldest document read is deleted; deleting a document
\* that is no longer there changes nothing
LogTrim(c) ==
    /\ c \in log_calls /\ c.pc = "read"
    /\ event_history' =
           IF Len(c.event_docs) >= MaxEventHistory
           THEN [event_history EXCEPT ![c.d] =
                    SelectSeq(@, LAMBDA doc : doc.id # c.event_docs[1].id)]
           ELSE event_history
    /\ log_calls' = (log_calls \ {c}) \cup {[c EXCEPT !.pc = "trimmed"]}
    /\ UNCHANGED <<events_logged, LogFrame>>

\* lines 114-115: the new document is created
LogWrite(c) ==
    /\ c \in log_calls /\ c.pc = "trimmed"
    /\ event_history' = [event_history EXCEPT ![c.d] =
           Append(@, LogDoc(events_logged[c.d] + 1, c.status))]
    /\ events_logged' = [events_logged EXCEPT ![c.d] = @ + 1]
    /\ log_calls' = log_calls \ {c}
    /\ UNCHANGED LogFrame

NextLog ==
    \/ \E thread \in LogThreads, d \in Devices, status \in Statuses :
          LogRead(thread, d, status)
    \/ \E c \in log_calls : LogTrim(c)
    \/ \E c \in log_calls : LogWrite(c)

SpecLog == InitLog /\ [][NextLog]_vars

(***************************************************************************)
(* Energy accrual as the threads run it.  A periodic_update thread reads   *)
(* the checkpoint (lines 954-960), reads the day's usage (line 937),       *)
(* writes it back increased (lines 943-948) and moves the checkpoint (line *)
(* 964).  An OFF of switch_device reads and clears the checkpoint (lines   *)
(* 566-569) and then does the same read and write of the day's usage       *)
(* (lines 583-586).  No lock is held by either.  The store is reachable    *)
(* and an ON arrives only while the channel is low.                        *)
(***************************************************************************)
\* the device whose threads are followed
AccrualDevice == "device1"

\* the periodic_update threads of the device and the thread that runs its
\* OFF
TaskThreads == {"task1", "task2"}
OffThread == "off"

\* a thread at position pc with its locals: the instant and the energy it
\* has computed and the usage it has read
ThreadAt(pc, at, energy, usage) ==
    [pc |-> pc, at |-> at, energy |-> energy, usage |-> usage]

\* the thread table with thread t at record r, and without thread t
WithThread(t, r) ==
    [x \in DOMAIN energy_threads \cup {t} |->
        IF x = t THEN r ELSE energy_threads[x]]
WithoutThread(t) ==
    [x \in DOMAIN energy_threads \ {t} |-> energy_threads[x]]

InitAccrual ==
    /\ \E topo \in MinerTopologies : StartedWith(topo, 0)
    /\ AuxIdle

\* the variables the accrual steps leave alone
AccrualFrame ==
    <<started, now, automation_listeners, in_flight, on_minutes, event_docs,
      rule_store, mined, wall, rule_calls, tick_pending, triggers,
      accrual_tasks, probe, log_calls, events_logged, bridge>>
AccrualMemory ==
    <<firebase_connected, device_building_map, device_type_map,
      building_automation_states, device_on_timestamps, gpio, event_history>>

\* switch_device(d, "ON") for a channel that is low: lines 547-562, the
\* last of which starts a periodic_update thread
AccrualOn(t) ==
    /\ t \in TaskThreads \ DOMAIN energy_threads
    /\ OffThread \notin DOMAIN energy_threads
    /\ gpio[AccrualDevice] = "LOW"
    /\ LET r == switch_device(Mem(TRUE), AccrualDevice, "ON", FALSE)
       IN  r.ret = "True" /\ Install(r.m)
    /\ energy_threads' = WithThread(t, ThreadAt("sleep", 0, 0, 0))
    /\ UNCHANGED AccrualFrame

\* periodic_update lines 954-963: the thread finds the device on and the
\* interval elapsed, and computes the energy since the checkpoint
TaskCheck(t) ==
    /\ t \in DOMAIN energy_threads \cap TaskThreads
    /\ energy_threads[t].pc = "sleep"
    /\ device_on_timestamps[AccrualDevice] \notin {None, NoKey}
    /\ firebase_connected
    /\ device_last_energy_update_time[AccrualDevice] \notin {None, NoKey}
    /\ LET elapsed_min ==
               now - device_last_energy_update_time[AccrualDevice][1]
       IN  /\ elapsed_min >= periodic_interval_minutes
           /\ energy_threads' = WithThread(t,
                  ThreadAt("get", now,
                           calculate_energy(elapsed_min,
                                            Wattage(AccrualDevice)), 0))
    /\ UNCHANGED <<AccrualMemory, device_last_energy_update_time,
                   daily_usage, AccrualFrame>>

\* update_daily_energy lines 936-941: the day's usage is read
UsageGet(t) ==
    /\ t \in DOMAIN energy_threads
    /\ energy_threads[t].pc = "get"
    /\ energy_threads' = WithThread(t,
           [energy_threads[t] EXCEPT !.pc = "set",
                                     !.usage = daily_usage[AccrualDevice]])
    /\ UNCHANGED <<AccrualMemory, device_last_energy_update_time,
                   daily_usage, AccrualFrame>>

\* update_daily_energy lines 943-948 in periodic_update: the usage read,
\* increased, is written
TaskSet(t) ==
    /\ t \in DOMAIN energy_threads \cap TaskThreads
    /\ energy_threads[t].pc = "set"
    /\ daily_usage' = [daily_usage EXCEPT ![AccrualDevice] =
           energy_threads[t].usage + energy_threads[t].energy]
    /\ energy_threads' = WithThread(t, [energy_threads[t] EXCEPT !.pc = "mark"])
    /\ UNCHANGED <<AccrualMemory, device_last_energy_update_time,
                   AccrualFrame>>

\* periodic_update line 964: the checkpoint is moved to the instant of
\* line 955
TaskMark(t) ==
    /\ t \in DOMAIN energy_threads \cap TaskThreads
    /\ energy_threads[t].pc = "mark"
    /\ device_last_energy_update_time' =
           [device_last_energy_update_time EXCEPT
               ![AccrualDevice] = At(energy_threads[t].at)]
    /\ energy_threads' = WithThread(t, ThreadAt("sleep", 0, 0, 0))
    /\ UNCHANGED <<AccrualMemory, daily_usage, AccrualFrame>>

\* switch_device(d, "OFF") lines 565-584: the channel goes low, the
\* checkpoint is read and cleared, the event is logged and the final
\* energy computed
OffBegin ==
    /\ OffThread \notin DOMAIN energy_threads
    /\ gpio[AccrualDevice] = "HIGH"
    /\ LET m == Mem(TRUE)
           r == switch_device(m, AccrualDevice, "OFF", FALSE)
           on_time == m.on_ts[AccrualDevice]
           last_time == m.last_ts[AccrualDevice]
       IN  /\ r.ret = "True"
           /\ Install([r.m EXCEPT !.usage = m.usage])
           /\ energy_threads' =
                  IF on_time # None /\ last_time # None
                  THEN WithThread(OffThread,
                           ThreadAt("get", now,
                                    calculate_energy(now - last_time[1],
                                                     Wattage(AccrualDevice)),
                                    0))
                  ELSE energy_threads
    /\ UNCHANGED AccrualFrame

\* update_daily_energy lines 943-948 in switch_device: the usage read,
\* increased, is written, and the OFF returns
OffSet ==
    /\ OffThread \in DOMAIN energy_threads
    /\ energy_threads[OffThread].pc = "set"
    /\ daily_usage' = [daily_usage EXCEPT ![AccrualDevice] =
           energy_threads[OffThread].usage + energy_threads[OffThread].energy]
    /\ energy_threads' = WithoutThread(OffThread)
    /\ UNCHANGED <<AccrualMemory, device_last_energy_update_time,
                   AccrualFrame>>

NextAccrual ==
    \/ MinutePasses
    \/ \E t \in TaskThreads : AccrualOn(t)
    \/ \E t \in TaskThreads : TaskCheck(t)
    \/ \E t \in TaskThreads \cup {OffThread} : UsageGet(t)
    \/ \E t \in TaskThreads : TaskSet(t)
    \/ \E t \in TaskThreads : TaskMark(t)
    \/ OffBegin
    \/ OffSet

SpecAccrual == InitAccrual /\ [][NextAccrual]_vars

(***************************************************************************)
(* The MQTT bridge (mqtt_firebase_bridge.py), a program of its own.  The   *)
(* MQTT loop thread runs on_message for the status reports of the devices; *)
(* a listener thread of the real-time store runs rtdb_listener for the     *)
(* changes of Devices/{d}/status, which reach it some time after the       *)
(* write.  last_rtdb_states is written and never read, and is left out.    *)
(***************************************************************************)
\* the ON reports handled, the changes waiting for the listener and the
\* commands published that are followed, per device
MaxBridgeOns == 2
MaxBridgeEvents == 2
MaxControl == 1

\* the bridge's memory and its channels as one record
BridgeMem ==
    [last_mqtt |-> last_mqtt_states, on_ts |-> bridge_on_timestamps,
     rtdb |-> rtdb_status, events |-> rtdb_events, control |-> mqtt_control,
     ons |-> bridge_ons, usage |-> bridge_usage]

InstallBridge(b) ==
    /\ last_mqtt_states' = b.last_mqtt
    /\ bridge_on_timestamps' = b.on_ts
    /\ rtdb_status' = b.rtdb
    /\ rtdb_events' = b.events
    /\ mqtt_control' = b.control
    /\ bridge_ons' = b.ons
    /\ bridge_usage' = b.usage

\* the payloads a status message can carry, and line 195:
\* msg.payload.decode().strip().upper()
RawPayloads == {"ON", "OFF", "on", "off ", "toggle"}
Decoded(raw) ==
    CASE raw = "on" -> "ON"
      [] raw = "off " -> "OFF"
      [] raw = "toggle" -> "TOGGLE"
      [] OTHER -> raw

\* Devices/{d}/status is set to value by origin; the listener is told when
\* the value changes
RtdbSet(b, d, value, origin) ==
    IF b.rtdb[d] = value THEN b
    ELSE [b EXCEPT !.rtdb[d] = value,
                   !.events[d] = Append(@, [data |-> value, origin |-> origin])]

\* handle_device_on: the instant of the ON is kept (here: which ON it is)
handle_device_on(b, d) ==
    [b EXCEPT !.ons[d] = @ + 1, !.on_ts[d] = At(b.ons[d] + 1)]

\* handle_device_off: the energy since the ON is added to the day's usage
\* (here: the ON is entered as credited), unless the store call fails, and
\* the timestamp is cleared
handle_device_off(b, d, up) ==
    IF b.on_ts[d] # None
    THEN [b EXCEPT !.usage[d] = IF up THEN Append(@, b.on_ts[d][1]) ELSE @,
                   !.on_ts[d] = None]
    ELSE b

\* on_message for a message on the status topic of d
on_message(b, d, raw, up) ==
    LET payload == Decoded(raw)
    IN  IF payload \notin {"ON", "OFF"} THEN b
        ELSE IF b.last_mqtt[d] = payload THEN b
        ELSE LET b1 == [b EXCEPT !.last_mqtt[d] = payload]
                 b2 == IF up THEN RtdbSet(b1, d, payload, "bridge") ELSE b1
             IN  IF payload = "ON" THEN handle_device_on(b2, d)
                 ELSE handle_device_off(b2, d, up)

\* create_rtdb_listener.rtdb_listener for one event
rtdb_listener(b, d, event) ==
    IF event.data = NoStatus THEN b
    ELSE IF event.data \in {"ON", "OFF"} /\ event.data # b.last_mqtt[d]
         THEN [b EXCEPT !.control[d] = Append(@, event)]
         ELSE b

\* the variables of the controller, which the bridge does not share
BridgeFrame ==
    <<started, now, firebase_connected, device_building_map, device_type_map,
      building_automation_states, automation_listeners, device_on_timestamps,
      device_last_energy_update_time, gpio, event_history, daily_usage,
      in_flight, on_minutes, event_docs, rule_store, mined, wall, rule_calls,
      tick_pending, triggers, accrual_tasks, probe, racing>>

BridgeStarted == \A d \in BridgeDevices : rtdb_status[d] # NoStatus

\* lines 291-299: the listeners are attached, each is told the value the
\* store holds, and the MQTT loop starts
BridgeStart(stored) ==
    /\ \A d \in BridgeDevices : rtdb_status[d] = NoStatus
    /\ rtdb_status' = stored
    /\ rtdb_events' = [d \in BridgeDevices |->
                         <<[data |-> stored[d], origin |-> "stored"]>>]
    /\ UNCHANGED <<last_mqtt_states, bridge_on_timestamps, mqtt_control,
                   bridge_ons, bridge_usage, BridgeFrame>>

\* a device publishes its status
DeviceReports(d, raw, up) ==
    /\ BridgeStarted
    /\ Decoded(raw) = "ON" => bridge_ons[d] < MaxBridgeOns
    /\ Len(rtdb_events[d]) < MaxBridgeEvents
    /\ InstallBridge(on_message(BridgeMem, d, raw, up))
    /\ UNCHANGED BridgeFrame

\* the web application writes Devices/{d}/status
RemoteWrite(d, value) ==
    /\ BridgeStarted
    /\ Len(rtdb_events[d]) < MaxBridgeEvents
    /\ InstallBridge(RtdbSet(BridgeMem, d, value, "remote"))
    /\ UNCHANGED BridgeFrame

\* the oldest change of Devices/{d}/status reaches rtdb_listener
ListenerDelivers(d) ==
    /\ rtdb_events[d] # <<>>
    /\ Len(mqtt_control[d]) < MaxControl
    /\ InstallBridge(rtdb_listener(
           [BridgeMem EXCEPT !.events[d] = Tail(@)], d, Head(rtdb_events[d])))
    /\ UNCHANGED BridgeFrame

NextBridge ==
    \/ \E stored \in [BridgeDevices -> {"ON", "OFF"}] : BridgeStart(stored)
    \/ \E d \in BridgeDevices, raw \in RawPayloads, up \in BOOLEAN :
          DeviceReports(d, raw, up)
    \/ \E d \in BridgeDevices, value \in {"ON", "OFF"} : RemoteWrite(d, value)
    \/ \E d \in BridgeDevices : ListenerDelivers(d)

\* the bridge's globals as lines 39-41 make them; nothing is stored or
\* published yet
InitBridge ==
    /\ StoresUnfollowed
    /\ BridgeIdle
    /\ Constructed

SpecBridge == InitBridge /\ [][NextBridge]_vars

(***************************************************************************)
(* Properties.                                                             *)
(***************************************************************************)
\* the building the topology map gives d has d in its lock set
Locked(d) ==
    /\ device_building_map[d] # NoBuilding
    /\ d \in building_automation_states[device_building_map[d]].locked

Members(b) == Range(building_automation_states[b].devices)
Known(b) == building_automation_states[b].exists
Mode(b) == building_automation_states[b].mode

LockdownCommand == Command("turn-off-all", TRUE, FALSE)
EcoCommand == Command("eco-mode", FALSE, TRUE)

\* what a call leaves alone on device d
SameDevice(m1, m2, d) ==
    /\ m1.gpio[d] = m2.gpio[d]
    /\ m1.on_ts[d] = m2.on_ts[d]
    /\ m1.last_ts[d] = m2.last_ts[d]
    /\ m1.events[d] = m2.events[d]
    /\ m1.usage[d] = m2.usage[d]

\* C1: a non-forced switch_device(d, ON) made while d is in its building's
\* lock set returns False and changes nothing (channel, on-timestamp,
\* event log), and no step of the handlers raises a locked device's
\* channel from low to high.
C1_LockedNeverSwitchedOn ==
    [][\A d \in Devices : Locked(d) =>
          /\ \A up \in BOOLEAN :
                switch_device(Mem(up), d, "ON", FALSE)
                    = [m |-> Mem(up), ret |-> "False"]
          /\ (gpio[d] = "LOW" => gpio'[d] = "LOW")]_vars

\* a locked device of a running, connected controller whose channel is low
\* after a logged OFF
C1_Witness ==
    \E d \in Devices :
        /\ started /\ firebase_connected /\ Locked(d)
        /\ gpio[d] = "LOW" /\ event_history[d] # <<>>

\* C2: under every interleaving of a non-forced switch_device(d, ON) with
\* apply_building_automation(LOCKDOWN) on d's building, a member d that the
\* lockdown has locked and switched off stays low for as long as the
\* building's mode stays LOCKDOWN and d stays locked: no step raises the
\* channel of a locked device.
C2_LockCheckAtomic ==
    [][\A d \in Devices :
          ( /\ Locked(d) /\ Mode(device_building_map[d]) = "turn-off-all"
            /\ gpio[d] = "LOW"
            /\ device_building_map'[d] = device_building_map[d]
            /\ building_automation_states'[device_building_map[d]].mode
                   = "turn-off-all"
            /\ d \in building_automation_states'[device_building_map[d]].locked )
          => gpio'[d] = "LOW"]_vars

\* a non-forced ON has passed its checks and is still in flight while
\* the lockdown has locked its device and switched it off
C2_Witness ==
    \E d \in Devices :
        /\ <<d, "ON">> \in in_flight
        /\ Locked(d) /\ Mode(device_building_map[d]) = "turn-off-all"
        /\ gpio[d] = "LOW"

\* C3: after apply_building_automation applies LOCKDOWN to a known building
\* while the store is reachable, every member has its channel low and its
\* timestamps cleared, and the lock set is the member list.
C3_LockdownPostcondition ==
    \A b \in Buildings :
        (firebase_connected /\ Known(b)) =>
            LET m == apply_building_automation(Mem(TRUE), b, LockdownCommand).m
            IN  /\ \A d \in Range(m.bas[b].devices) :
                      /\ m.gpio[d] = "LOW"
                      /\ m.on_ts[d] \in {None, NoKey}
                      /\ m.last_ts[d] \in {None, NoKey}
                /\ m.bas[b].locked = Range(m.bas[b].devices)

\* a known building has a member that is ON while the store is reachable
C3_Witness ==
    \E b \in Buildings :
        /\ firebase_connected /\ Known(b)
        /\ \E d \in Members(b) : gpio[d] = "HIGH"

\* C4: applying LOCKDOWN twice in succession leaves the state of one
\* application: mode, lock set, channels, timestamps, event log and daily
\* usage.
C4_LockdownIdempotent ==
    \A b \in Buildings, up \in BOOLEAN :
        (firebase_connected /\ Known(b)) =>
            LET once == apply_building_automation(Mem(up), b, LockdownCommand).m
                twice == apply_building_automation(once, b, LockdownCommand).m
            IN  twice = once

\* C4, what does hold: the second application leaves mode, lock set,
\* channels, timestamps and daily usage as the first left them, and every
\* event log it changes ends with the OFF it appended.
C4_OnlyTheLogDiffers ==
    \A b \in Buildings, up \in BOOLEAN :
        (firebase_connected /\ Known(b)) =>
            LET once == apply_building_automation(Mem(up), b, LockdownCommand).m
                twice == apply_building_automation(once, b, LockdownCommand).m
            IN  /\ [twice EXCEPT !.events = once.events] = once
                /\ \A d \in Devices :
                      \/ twice.events[d] = once.events[d]
                      \/ /\ Len(twice.events[d]) > 0
                         /\ twice.events[d][Len(twice.events[d])] = "OFF"

\* a building in LOCKDOWN with a locked member that logged its OFF and
\* accrued energy: the state one application leaves
C4_Witness ==
    \E b \in Buildings, d \in Devices :
        /\ firebase_connected /\ Known(b) /\ Mode(b) = "turn-off-all"
        /\ d \in Members(b) /\ building_automation_states[b].locked = Members(b)
        /\ gpio[d] = "LOW" /\ daily_usage[d] > 0
        /\ event_history[d] = <<"ON", "OFF">>

\* C5: ECO applied to a building in LOCKDOWN empties the lock set, leaves
\* every AC member with its channel low, and leaves every other member's
\* channel, timestamps, event log and usage as they were.
C5_EcoAfterLockdown ==
    \A b \in Buildings, up \in BOOLEAN :
        (firebase_connected /\ Known(b) /\ Mode(b) = "turn-off-all") =>
            LET m == apply_building_automation(Mem(up), b, EcoCommand).m
            IN  /\ m.bas[b].locked = {}
                /\ \A d \in Members(b) :
                      IF device_type_map[d] = "AC"
                      THEN m.gpio[d] = "LOW"
                      ELSE SameDevice(m, Mem(up), d)

\* a building in LOCKDOWN with every member locked, an AC among them
C5_Witness ==
    \E b \in Buildings :
        /\ firebase_connected /\ Known(b) /\ Mode(b) = "turn-off-all"
        /\ Members(b) # {} /\ building_automation_states[b].locked = Members(b)
        /\ \E d \in Members(b) : device_type_map[d] = "AC"

\* the documents that clear a building: absent, disabled, or mode none
ClearingDocs ==
    {doc \in AutomationDocs : ~doc.exists \/ ~doc.enabled \/ doc.mode = "none"}

\* C6: a building-intent document that is absent, disabled or of mode none
\* sets the building's mode to none and empties its lock set, and changes
\* no device's channel, timestamps, event log or usage.
C6_ClearIntent ==
    \A b \in Buildings, up \in BOOLEAN, doc \in ClearingDocs :
        (firebase_connected /\ Known(b)) =>
            LET m == on_automation_change(Mem(up), b, doc).m
            IN  /\ m.bas[b].mode = "none"
                /\ m.bas[b].locked = {}
                /\ \A d \in Devices : SameDevice(m, Mem(up), d)

\* a connected controller with a building in LOCKDOWN whose members are
\* locked: the clear intent has something to clear
C6_Witness ==
    \E b \in Buildings :
        /\ started /\ firebase_connected /\ b \in automation_listeners
        /\ Known(b) /\ Mode(b) = "turn-off-all"
        /\ building_automation_states[b].locked # {}

\* C7: while the store is known unreachable, switch_device(d, s,
\* force=False) returns False for every d and s and changes nothing.
C7_OfflineRejects ==
    ~firebase_connected =>
        \A d \in Devices, state \in Statuses, up \in BOOLEAN :
            switch_device(Mem(up), d, state, FALSE)
                = [m |-> Mem(up), ret |-> "False"]

\* the store is known unreachable while a mapped device is ON
C7_Witness ==
    \E d \in Devices :
        /\ started /\ ~firebase_connected
        /\ device_building_map[d] # NoBuilding /\ gpio[d] = "HIGH"

\* C8: switch_device(d, s, force=True) on a device of the topology map
\* performs the transition and returns True, connected or not, locked or
\* not.
C8_ForcedSwitch ==
    \A d \in Devices, state \in Statuses, up \in BOOLEAN :
        device_building_map[d] # NoBuilding =>
            LET r == switch_device(Mem(up), d, state, TRUE)
            IN  /\ r.ret = "True"
                /\ r.m.gpio[d] = IF state = "ON" THEN "HIGH" ELSE "LOW"

\* a device of the topology map is locked, and one is mapped while the
\* store is unreachable: the two checks a forced call bypasses
C8_Witness ==
    \/ \E d \in Devices : Locked(d) /\ gpio[d] = "LOW"
    \/ \E d \in Devices : ~firebase_connected /\ device_building_map[d] # NoBuilding

\* C9: when a probe fails and the next probe succeeds, every building
\* that had automation state before the failure has an in-memory state
\* again, in LOCKDOWN with all its members locked if that is its stored
\* intent. (While disconnected no handler acts, so the memory the
\* recovering probe finds is the memory the failing probe left.)
C9_ResyncOnRecovery ==
    [][(firebase_connected /\ ~firebase_connected') =>
          \A b \in Buildings, docs \in StoredDocs :
              Known(b) =>
                  LET m == connection_check(Mem(TRUE)', docs)
                  IN  /\ m.bas[b].exists
                      /\ (ActiveDoc(docs[b]) /\ docs[b].mode = "turn-off-all")
                           => /\ m.bas[b].mode = "turn-off-all"
                              /\ m.bas[b].locked = Range(m.bas[b].devices)]_vars

\* the probe has failed after a building was locked down: every state is
\* gone and the devices it had switched off are still off
C9_Witness ==
    /\ started /\ ~firebase_connected
    /\ \A b \in Buildings : ~Known(b)
    /\ \E d \in Devices :
          /\ device_building_map[d] # NoBuilding
          /\ event_history[d] # <<>>
          /\ event_history[d][Len(event_history[d])] = "OFF"

FewQualifying(d) ==
    LET events == EventWindow(event_docs[d], now)
    IN  \/ Cardinality({e \in events : e.status = "ON"}) < 2
        \/ Cardinality({e \in events : e.status = "OFF"}) < 2

\* C12: a device's event log never holds more than the maximum number of
\* entries; a log_device_event on a log shorter than the maximum appends
\* the event, and one on a full log removes exactly the oldest entry and
\* appends the event.
C12_RollingLog ==
    \A d \in Devices :
        /\ Len(event_history[d]) <= MaxEventHistory
        /\ \A status \in Statuses :
              LET old == event_history[d]
                  new == log_device_event(Mem(TRUE), d, status).events[d]
              IN  firebase_connected =>
                    /\ Len(new) <= MaxEventHistory
                    /\ new = IF Len(old) = MaxEventHistory
                             THEN Append(Tail(old), status)
                             ELSE Append(old, status)

\* a full log whose oldest entry differs from the next one
C12_Witness ==
    \E d \in Devices :
        /\ firebase_connected
        /\ Len(event_history[d]) = MaxEventHistory
        /\ event_history[d][1] # event_history[d][2]

\* C13: whatever a run of generate_automation_rules writes to the rule
\* store, weekly or triggered, over an absent, a disabled or an opted-in
\* rule, is a rule with enabled = false.
C13_MinedRulesStartDisabled ==
    /\ \A d \in Devices, up \in BOOLEAN :
          LET written == generate_automation_rules(
                             rule_store, event_docs, device_building_map,
                             now, up)[d]
          IN  written # rule_store[d] => written.exists /\ ~written.enabled
    /\ \A d \in Devices :
          ~analyze_device_patterns_multi_stage(event_docs[d], now).enabled

\* the miner has run over a rule that had been opted in
C13_Witness ==
    \E d \in Devices :
        /\ d \in mined /\ rule_store[d].exists /\ rule_store[d].enabled
        /\ analyze_device_patterns_multi_stage(event_docs[d], now).exists

\* C14: from a week with one ON at 08:00 and one OFF at 18:00 on each day
\* the miner produces a disabled rule whose schedule has, for each of the
\* seven days, exactly the stage 08:00-18:00.
C14_WeeklyPattern ==
    \A d \in Devices :
        event_docs[d] = WeeklyHistory =>
            LET rule == analyze_device_patterns_multi_stage(event_docs[d], now)
            IN  /\ rule.exists /\ ~rule.enabled
                /\ DOMAIN rule.schedules = Range(DayNames)
                /\ \A day \in DOMAIN rule.schedules :
                      rule.schedules[day]
                          = <<[start |-> HourLabel(8), end |-> HourLabel(18)]>>

\* the miner has analysed a mapped device that has the weekly history
C14_Witness ==
    \E d \in mined :
        /\ event_docs[d] = WeeklyHistory
        /\ EventWindow(event_docs[d], now) = WeeklyHistory

\* C15: two events that follow each other are in the same session exactly
\* when their gap does not exceed the threshold; a session that is
\* returned has at least two events and is a run of events that follow
\* each other; minutes 0, 10 and 40 give the one session {0, 10}.
C15_SessionPartition ==
    /\ \A d \in Devices :
          LET evs == SortedEvents(event_docs[d])
              sessions == group_events_into_sessions(
                              event_docs[d], MINIMUM_STAGE_GAP_MINUTES)
              Together(e1, e2) ==
                  \E k \in 1..Len(sessions) :
                      e1 \in Range(sessions[k]) /\ e2 \in Range(sessions[k])
          IN  /\ \A k \in 1..Len(sessions) :
                    /\ Len(sessions[k]) >= 2
                    /\ \A j \in 1..(Len(sessions[k]) - 1) :
                          \E i \in 1..(Len(evs) - 1) :
                              /\ evs[i] = sessions[k][j]
                              /\ evs[i + 1] = sessions[k][j + 1]
              /\ \A i \in 1..(Len(evs) - 1) :
                    Together(evs[i], evs[i + 1])
                        <=> (evs[i + 1].timestamp - evs[i].timestamp
                                <= MINIMUM_STAGE_GAP_MINUTES)
    /\ group_events_into_sessions(SessionExample, MINIMUM_STAGE_GAP_MINUTES)
          = << <<Event("ON", Clock(1, 8, 0)), Event("OFF", Clock(1, 8, 10))>> >>

\* a history with a gap equal to the threshold, a larger gap after it and
\* a lone last event
C15_Witness ==
    \E d \in Devices :
        /\ d \in mined
        /\ {e.timestamp : e \in event_docs[d]}
              = {Clock(1, 8, 5), Clock(1, 8, 20), Clock(1, 9, 0)}

\* C16: mining a device whose window has fewer than two ON events or fewer
\* than two OFF events produces no rule and writes nothing to the rule
\* store.
C16_InsufficientData ==
    \A d \in Devices :
        FewQualifying(d) =>
            /\ ~analyze_device_patterns_multi_stage(event_docs[d], now).exists
            /\ \A up \in BOOLEAN :
                  generate_automation_rules(rule_store, event_docs,
                      device_building_map, now, up)[d] = rule_store[d]

\* the miner has analysed a device with four events in the window, one of
\* them an OFF
C16_Witness ==
    \E d \in mined :
        LET events == EventWindow(event_docs[d], now)
        IN  /\ Cardinality(events) = MinEvents
            /\ Cardinality({e \in events : e.status = "OFF"}) = 1

(***************************************************************************)
(* Energy accounting.                                                      *)
(***************************************************************************)
\* the exact energy of on_minutes[d] minutes at the wattage of d is
\* 50 * w * minutes / 3 micro-kWh; MinuteEnergy3(d) is three times the
\* energy of one minute
MinuteEnergy3(d) == 50 * Wattage(d)
Distance(a, b) == IF a >= b THEN a - b ELSE b - a

\* C11: whenever a device is off, the day's usage recorded for it is the
\* energy (w/1000) x d of the time d its channel has been high that day,
\* over all its ON/OFF cycles and counting the periodic and the final
\* accruals (to within the energy of one minute, which covers the rounding
\* of each accrual to a micro-kWh)
C11_UsageIsWattageTimesDuration ==
    \A d \in Devices :
        gpio[d] = "LOW" =>
            Distance(3 * daily_usage[d], MinuteEnergy3(d) * on_minutes[d])
                < MinuteEnergy3(d)

\* a device has been switched on, left on past a periodic accrual, and
\* switched off
C11_Witness ==
    \E d \in Devices :
        /\ gpio[d] = "LOW"
        /\ on_minutes[d] >= periodic_interval_minutes
        /\ daily_usage[d] > 0
        /\ Len(event_history[d]) > 0

(***************************************************************************)
(* Rule execution.                                                         *)
(***************************************************************************)
\* the stages of today's schedule of a rule
TodaysStages(rule_data, day) ==
    IF ~rule_data.exists THEN <<>>
    ELSE IF rule_data.multiStage
         THEN IF day \in DOMAIN rule_data.schedules
              THEN rule_data.schedules[day] ELSE <<>>
         ELSE IF day \in rule_data.days
              THEN <<[start |-> rule_data.start, end |-> rule_data.end]>>
              ELSE <<>>

\* the boundaries of the stages at a label that ask for state: the starts
\* for ON, the ends for OFF
Boundaries(stages, label, state) ==
    {i \in 1..Len(stages) :
        \/ state = "ON" /\ stages[i].start = label
        \/ state = "OFF" /\ stages[i].end = label}

\* the same, with the end of a stage that starts and ends at one label left
\* out
ProperBoundaries(stages, label, state) ==
    {i \in Boundaries(stages, label, state) :
        state = "OFF" => stages[i].start # stages[i].end}

\* how often the tick of an hour called switch_device(d, state)
CallCount(calls, d, state) ==
    Cardinality({i \in 1..Len(calls) : calls[i] = <<d, state>>})

\* the tick executes the rule of d: it does not skip the device, reads an
\* enabled rule
Executes(d) ==
    /\ firebase_connected
    /\ ~RuleSkips(Mem(TRUE), d)
    /\ rule_store[d].exists /\ rule_store[d].enabled

\* a step in which the hourly job runs; the hours never ticked have no calls
TickRuns == wall' = wall /\ rule_calls' # rule_calls
NoTickNoCall ==
    \A h \in Hours : ~rule_calls'[h].ticked => rule_calls'[h].calls = <<>>

\* the record of the day changes only by the tick of the current hour, once
\* in an hour, and by midnight
OncePerHour ==
    /\ TickRuns =>
          /\ ~rule_calls[wall[2]].ticked /\ rule_calls'[wall[2]].ticked
          /\ \A h \in Hours \ {wall[2]} : rule_calls'[h] = rule_calls[h]
    /\ wall' # wall =>
          rule_calls' = rule_calls \/ (wall'[2] = 0 /\ rule_calls' = NoCalls)

CallsFor(record, d) ==
    {<<h, i>> \in Hours \X (1..(2 * Len(DEVICE_GPIO_CONFIG) + 2)) :
        i <= Len(record[h].calls) /\ record[h].calls[i][1] = d}

\* C18: a step in which the rule executor calls switch_device for a device
\* starts in a state where the device is mapped, the mode of its building
\* is none, the device is not in the building's lock set, and the device
\* has an enabled rule
C18_TickCallsOnlyUngated ==
    [][\A d \in Devices :
          CallsFor(rule_calls', d) \ CallsFor(rule_calls, d) # {} =>
              /\ ~RuleSkips(Mem(TRUE), d)
              /\ Mode(device_building_map[d]) = "none"
              /\ ~Locked(d)
              /\ rule_store[d].exists /\ rule_store[d].enabled]_vars

\* the job has passed the skip checks of a device and has not yet read its
\* rule, and the mode of the device's building is no longer none
C18_Witness ==
    \E i \in 1..Len(DEVICE_GPIO_CONFIG) :
        /\ <<i, "act">> \in tick_pending
        /\ device_building_map[DEVICE_GPIO_CONFIG[i]] # NoBuilding
        /\ Mode(device_building_map[DEVICE_GPIO_CONFIG[i]]) # "none"
        /\ rule_store[DEVICE_GPIO_CONFIG[i]].enabled

(***************************************************************************)
(* Topology changes.                                                       *)
(***************************************************************************)
\* in memory m the map and the member lists agree: a device is in the list
\* of a building exactly when it is mapped to it
ConsistentIn(m) ==
    \A d \in Devices :
        /\ m.map[d] # NoBuilding => m.bas[m.map[d]].exists
        /\ \A b \in Buildings :
              d \in Range(m.bas[b].devices) <=> (m.bas[b].exists /\ m.map[d] = b)

\* in memory m the device is in no map and in no member list
AbsentIn(m, d) ==
    /\ m.map[d] = NoBuilding
    /\ \A b \in Buildings : d \notin Range(m.bas[b].devices)

\* C19: from a state where the map and the member lists agree, an integrate
\* (ADDED), a relocate (MODIFIED) or a remove (REMOVED) leaves them in
\* agreement, and the integrate of a device whose document has a location
\* leaves the device mapped and in the member list of its building
C19_MembersFollowTheMap ==
    started /\ firebase_connected /\ ConsistentIn(Mem(TRUE)) =>
        \A d \in HotPlugged, kind \in {"ADDED", "MODIFIED", "REMOVED"},
           has_location \in BOOLEAN :
            LET m == on_device_change(Mem(TRUE), kind, d, has_location)
            IN  /\ ConsistentIn(m)
                /\ kind = "ADDED" /\ has_location =>
                      /\ m.map[d] # NoBuilding
                      /\ d \in Range(m.bas[m.map[d]].devices)

\* the controller is connected, the map and the lists agree, and a
\* hot-plugged device has been removed: it is in no map, and its timestamp
\* slots are gone
C19_Witness ==
    /\ started /\ firebase_connected /\ ConsistentIn(Mem(TRUE))
    /\ \E d \in HotPlugged :
          /\ AbsentIn(Mem(TRUE), d)
          /\ device_on_timestamps[d] = NoKey
    /\ \E d \in Devices : device_building_map[d] # NoBuilding

\* C20: after a refresh that reads a topology, every device the topology
\* does not resolve is in no map and in no member list, and switch_device
\* rejects it; after the relocation of a device to a location that does
\* not resolve, the same holds of that device; the other devices that
\* resolve are mapped all the same
C20_UnresolvedIsExcluded ==
    started /\ firebase_connected =>
        /\ \A topo \in Topologies :
              LET m == on_refresh_trigger(Mem(TRUE), topo)
              IN  \A d \in Devices :
                      IF topo.bld[d] = NoBuilding
                      THEN /\ AbsentIn(m, d)
                           /\ switch_device(m, d, "ON", FALSE).ret = "False"
                      ELSE m.map[d] = topo.bld[d]
        /\ \A d \in HotPlugged :
              LET m == on_device_change(Mem(TRUE), "MODIFIED", d, TRUE)
              IN  /\ AbsentIn(m, d)
                  /\ switch_device(m, d, "ON", FALSE).ret = "False"

\* the controller is connected and a hot-plugged device is mapped, in the
\* member list of its building and switched on: the state in which its
\* location stops resolving
C20_Witness ==
    /\ started /\ firebase_connected
    /\ \E d \in HotPlugged :
          /\ device_building_map[d] # NoBuilding
          /\ d \in Members(device_building_map[d])
          /\ gpio[d] = "HIGH"

(***************************************************************************)
(* Device intents.                                                         *)
(***************************************************************************)
\* C21: when Devices/{d}/status is written ON and switch_device rejects the
\* call, the status the listener leaves is OFF and the channel of the
\* device is low
C21_RejectedOnIsReverted ==
    started /\ firebase_connected =>
        \A d \in Devices :
            LET r == device_listener(Mem(TRUE), d, "ON")
            IN  r.ret = "False" =>
                    /\ ListenerPublishes(Mem(TRUE), d, "ON") = "OFF"
                    /\ r.m.gpio[d] = "LOW"

\* a device is in the lock set of its building and an ON written to its
\* status is rejected and reverted
C21_Witness ==
    /\ started /\ firebase_connected
    /\ \E d \in Devices :
          /\ Locked(d)
          /\ device_listener(Mem(TRUE), d, "ON").ret = "False"
          /\ ListenerPublishes(Mem(TRUE), d, "ON") = "OFF"

(***************************************************************************)
(* Manual triggers.                                                        *)
(***************************************************************************)
\* C22: the action of a stored trigger record has run at most once, and
\* once the record is no longer on its way to a listener, with the store
\* connected, it has run
C22_TriggerRunsOnce ==
    \A r \in TriggerRecords :
        /\ triggers[r].runs <= 1
        /\ triggers[r].stored /\ ~triggers[r].pending /\ firebase_connected
              => triggers[r].runs >= 1

\* the part of it that a restart decides: the refresh action has run at
\* most once for every record
C22_RefreshRunsAtMostOnce ==
    \A id \in 1..MaxTriggers : triggers[<<"refresh", id>>].runs <= 1

\* a refresh record has been handled, the process has been started again,
\* and the record is on its way to the new listener
C22_Witness ==
    \E id \in 1..MaxTriggers :
        /\ triggers[<<"refresh", id>>].stored
        /\ triggers[<<"refresh", id>>].runs = 1
        /\ triggers[<<"refresh", id>>].pending

(***************************************************************************)
(* Accrual threads.                                                        *)
(***************************************************************************)
\* C23: a device has at most one periodic_update thread at any time
C23_OneTaskPerDevice ==
    \A d \in Devices : accrual_tasks[d].live <= 1

\* a device has been switched on and off again, and the thread its ON
\* started is there
C23_Witness ==
    \E d \in Devices :
        /\ accrual_tasks[d].live = 1
        /\ gpio[d] = "LOW"
        /\ device_on_timestamps[d] = None
        /\ Len(event_history[d]) >= 2

\* C24: no periodic_update thread ends by raising an error, and the usage
\* of a device that is not in the topology map does not grow at a poll
C24_TaskSurvivesRemoval ==
    [][/\ \A d \in Devices : accrual_tasks'[d].raised = 0
       /\ \A d \in Devices :
             /\ device_building_map[d] = NoBuilding
             /\ accrual_tasks'[d] # accrual_tasks[d]
             => daily_usage'[d] = daily_usage[d]]_vars

\* a device has been removed from the topology while its channel was high
\* and its thread alive
C24_Witness ==
    \E d \in Devices :
        /\ device_building_map[d] = NoBuilding
        /\ device_on_timestamps[d] = NoKey
        /\ gpio[d] = "HIGH"
        /\ accrual_tasks[d].live > 0

(***************************************************************************)
(* Building states and loads.                                              *)
(***************************************************************************)
\* C25: once the controller has started, every device in the topology map
\* has a building whose automation state exists in memory
C25_MappedBuildingHasState ==
    started =>
        \A d \in Devices :
            device_building_map[d] # NoBuilding =>
                Known(device_building_map[d])

\* the controller is connected again after a disconnect, a device is
\* mapped, and a building intent for its building cannot be applied
C25_Witness ==
    /\ started /\ firebase_connected
    /\ \E d \in Devices :
          /\ device_building_map[d] # NoBuilding
          /\ apply_building_automation(Mem(TRUE), device_building_map[d],
                                       LockdownCommand).ret = "unknown"

\* C26: after a successful load of a topology, the map holds exactly the
\* devices the topology resolves, each with its building of the topology,
\* and the member list of every building state is the set of the devices
\* mapped to the building
C26_LoadIsFullResync ==
    started /\ firebase_connected =>
        \A topo \in Topologies :
            LET r == load_device_mappings(Mem(TRUE), topo)
            IN  r.ret = "True" =>
                    /\ \A d \in Devices : r.m.map[d] = topo.bld[d]
                    /\ \A b \in Buildings :
                          r.m.bas[b].exists =>
                              Range(r.m.bas[b].devices)
                                  = {d \in Devices : r.m.map[d] = b}

\* a refresh has moved a hot-plugged device to the second building
C26_Witness ==
    /\ started /\ firebase_connected
    /\ \E d \in HotPlugged :
          /\ device_building_map[d] = "b2"
          /\ Known("b2")

\* the modes of the specification: NONE, LOCKDOWN and ECO
BuildingModes == {"none", "turn-off-all", "eco-mode"}

\* BUILDINGAUTOMATION documents that are enabled and carry another mode
\* string
OtherModeDocs ==
    {[exists |-> TRUE, enabled |-> TRUE, mode |-> "away-mode",
      toa |-> toa, eco |-> FALSE] : toa \in BOOLEAN}

\* C27: the mode of every building state is none, turn-off-all or
\* eco-mode, and stays so when the listener of the building gets a
\* document, whatever the mode string of the document
C27_ModeIsOneOfThree ==
    /\ \A b \in Buildings : Mode(b) \in BuildingModes
    /\ started /\ firebase_connected =>
          \A b \in automation_listeners,
             doc \in AutomationDocs \cup OtherModeDocs :
              on_automation_change(Mem(TRUE), b, doc).m.bas[b].mode
                  \in BuildingModes

\* a building with a listener is in eco-mode: an intent has been applied
C27_Witness ==
    /\ started /\ firebase_connected
    /\ \E b \in automation_listeners : Known(b) /\ Mode(b) = "eco-mode"

(***************************************************************************)
(* The schedule of a mined rule.                                           *)
(***************************************************************************)
\* the day names on which device d has an event in the window
EventDays(d) == {DayName(e.timestamp) : e \in EventWindow(event_docs[d], now)}

\* the events of device d in the window on a day name
EventsOn(d, day) ==
    {e \in EventWindow(event_docs[d], now) : DayName(e.timestamp) = day}

\* the sessions of a day of device d
SessionsOn(d, day) ==
    group_events_into_sessions(EventsOn(d, day), MINIMUM_STAGE_GAP_MINUTES)

\* the hours of the earliest ON and of the latest OFF of a session that
\* has both
FirstOnHour(session) ==
    HourOf(CHOOSE t \in {e.timestamp : e \in {x \in Range(session) : x.status = "ON"}} :
               \A e \in Range(session) : e.status = "ON" => t <= e.timestamp)
LastOffHour(session) ==
    HourOf(CHOOSE t \in {e.timestamp : e \in {x \in Range(session) : x.status = "OFF"}} :
               \A e \in Range(session) : e.status = "OFF" => t >= e.timestamp)

\* a session gives a stage: it has an ON and an OFF, and the two hours
\* differ
GivesStage(session) ==
    /\ \E e \in Range(session) : e.status = "ON"
    /\ \E e \in Range(session) : e.status = "OFF"
    /\ FirstOnHour(session) # LastOffHour(session)

\* stages is, in order, one stage for each session of the day that gives
\* one
StagesFromSessions(stages, sessions) ==
    LET giving == {k \in 1..Len(sessions) : GivesStage(sessions[k])}
    IN  /\ Len(stages) = Cardinality(giving)
        /\ \A i \in 1..Len(stages) :
              LET k == CHOOSE k \in giving :
                           Cardinality({j \in giving : j <= k}) = i
              IN  stages[i] = [start |-> HourLabel(FirstOnHour(sessions[k])),
                               end |-> HourLabel(LastOffHour(sessions[k]))]

\* the stages a day of device d produces
OwnStages(d, day) == StagesOf(SessionsOn(d, day), 1)

\* the days of cand with the most raw events
MostEvents(d, cand) ==
    {t \in cand : \A o \in cand :
        Cardinality(EventsOn(d, t)) >= Cardinality(EventsOn(d, o))}

\* the rule mined for d has one entry for each day with an event, none
\* empty, with the day's own stages or else those of a template of cand
EntriesFollow(d, cand) ==
    LET rule == analyze_device_patterns_multi_stage(event_docs[d], now)
    IN  rule.exists =>
            /\ DOMAIN rule.schedules = EventDays(d)
            /\ \A day \in EventDays(d) :
                  /\ rule.schedules[day] # <<>>
                  /\ OwnStages(d, day) # <<>> =>
                        rule.schedules[day] = OwnStages(d, day)
                  /\ OwnStages(d, day) = <<>> =>
                        \E t \in MostEvents(d, cand) :
                            rule.schedules[day] = OwnStages(d, t)

C29_StagesComeFromSessions ==
    \A d \in Devices :
        LET rule == analyze_device_patterns_multi_stage(event_docs[d], now)
        IN  /\ rule.exists =>
                \A day \in DOMAIN rule.schedules :
                    /\ \E from \in EventDays(d) :
                          StagesFromSessions(rule.schedules[day],
                                             SessionsOn(d, from))
                    /\ \A i \in 1..Len(rule.schedules[day]) :
                          rule.schedules[day][i].start
                              # rule.schedules[day][i].end
            /\ \A day \in EventDays(d) :
                  StagesFromSessions(OwnStages(d, day), SessionsOn(d, day))

\* the miner has written a rule for a device that has, on one day, two
\* sessions that give a stage, a session with an ON and an OFF in the same
\* hour and a session without an OFF
C29_Witness ==
    \E d \in mined :
        /\ rule_store[d].exists
        /\ \E day \in EventDays(d) :
              LET sessions == SessionsOn(d, day)
              IN  /\ \E k, l \in 1..Len(sessions) :
                        k # l /\ GivesStage(sessions[k])
                              /\ GivesStage(sessions[l])
                  /\ \E k \in 1..Len(sessions) :
                        /\ ~GivesStage(sessions[k])
                        /\ \E e \in Range(sessions[k]) : e.status = "ON"
                        /\ \E e \in Range(sessions[k]) : e.status = "OFF"
                  /\ \E k \in 1..Len(sessions) :
                        \A e \in Range(sessions[k]) : e.status = "ON"

(***************************************************************************)
(* The connection guard.                                                   *)
(***************************************************************************)
\* the failure actions are done: the controller holds itself disconnected
\* and no building state is left
DeclaredUnreachable ==
    /\ ~firebase_connected
    /\ \A b \in Buildings : ~Known(b)

\* C30: a probe whose write stalls is followed by the guard declaring the
\* store unreachable and doing the failure actions
C30_StalledProbeCountsAsFailure == (probe = "stalled") ~> DeclaredUnreachable

\* the write of a probe has stalled while the controller holds itself
\* connected and a building is in lockdown
C30_Witness ==
    /\ probe = "stalled" /\ firebase_connected
    /\ \E b \in Buildings : Known(b) /\ Mode(b) = "turn-off-all"

(***************************************************************************)
(* The rule store after mining.                                            *)
(***************************************************************************)
\* C34: a run of generate_automation_rules with the store reachable
\* leaves, for every mapped device with a pattern, the pattern itself as
\* the device's one stored rule, with enabled = false, whatever rule was
\* stored before; every other device keeps its stored rule
C34_MiningReplacesTheRule ==
    \A d \in Devices :
        LET pattern == analyze_device_patterns_multi_stage(event_docs[d], now)
            after == generate_automation_rules(rule_store, event_docs,
                         device_building_map, now, TRUE)
        IN  /\ DOMAIN after = Devices
            /\ IF device_building_map[d] # NoBuilding /\ pattern.exists
               THEN after[d] = pattern /\ after[d].exists /\ ~after[d].enabled
               ELSE after[d] = rule_store[d]

\* a mined rule has been opted in, and a mapped device whose history gives
\* no pattern has no rule
C34_Witness ==
    /\ \E d \in mined :
          /\ rule_store[d].exists /\ rule_store[d].enabled
          /\ analyze_device_patterns_multi_stage(event_docs[d], now).exists
    /\ \E d \in mined :
          /\ event_docs[d] # {}
          /\ ~analyze_device_patterns_multi_stage(event_docs[d], now).exists
          /\ ~rule_store[d].exists

(***************************************************************************)
(* Lock sets.                                                              *)
(***************************************************************************)
\* automation_state["locked_devices"] of building b
LockSet(b) == building_automation_states[b].locked

\* C35: the lock set of every building is a subset of the building's
\* member list, and holds no device that is mapped to another building or
\* to none
C35_LocksAreMembers ==
    \A b \in Buildings :
        Known(b) =>
            /\ LockSet(b) \subseteq Members(b)
            /\ \A d \in LockSet(b) : device_building_map[d] = b

\* a device is locked in a building it is no longer mapped to
C35_Witness ==
    /\ started /\ firebase_connected
    /\ \E b \in Buildings, d \in Devices :
          /\ Known(b) /\ d \in LockSet(b)
          /\ device_building_map[d] # b

\* enabled BUILDINGAUTOMATION documents with every combination of a mode
\* and the two mode flags
FlagDocs ==
    {[exists |-> TRUE, enabled |-> TRUE, mode |-> mode,
      toa |-> toa, eco |-> eco] :
        mode \in {"turn-off-all", "eco-mode"}, toa \in BOOLEAN,
        eco \in BOOLEAN}

\* in memory m, building b has locks only in LOCKDOWN, and in LOCKDOWN all
\* its members are locked
LocksFollowMode(m, b) ==
    m.bas[b].exists =>
        /\ m.bas[b].locked # {} => m.bas[b].mode = "turn-off-all"
        /\ m.bas[b].mode = "turn-off-all" =>
              Range(m.bas[b].devices) \subseteq m.bas[b].locked

\* C36: in every state, and after the listener of a building gets a
\* document with any combination of mode and flags, a building's lock set
\* is non-empty only if its mode is turn-off-all, and then every member is
\* locked
C36_LocksOnlyInLockdown ==
    /\ \A b \in Buildings : LocksFollowMode(Mem(TRUE), b)
    /\ started /\ firebase_connected =>
          \A b \in automation_listeners, doc \in FlagDocs :
              LocksFollowMode(on_automation_change(Mem(TRUE), b, doc).m, b)

\* a building in lockdown has all its members locked
C36_Witness ==
    /\ started /\ firebase_connected
    /\ \E b \in automation_listeners :
          /\ Known(b) /\ Mode(b) = "turn-off-all"
          /\ Members(b) # {} /\ Members(b) \subseteq LockSet(b)

(***************************************************************************)
(* The stages of a mined rule.                                             *)
(***************************************************************************)
\* the hour of a label HH:00
LabelHour(label) == 10 * label[1] + label[2]

\* the stages of the rule mined for d
MinedStages(d) ==
    LET rule == analyze_device_patterns_multi_stage(event_docs[d], now)
    IN  IF rule.exists
        THEN UNION {Range(rule.schedules[day]) : day \in DOMAIN rule.schedules}
        ELSE {}

\* C37: every stage of a mined rule has its start earlier in the day than
\* its end
C37_StagesRunForward ==
    \A d \in Devices :
        \A stage \in MinedStages(d) :
            LabelHour(stage.start) < LabelHour(stage.end)

\* the miner has written a rule for a device with a session whose latest
\* OFF is in an earlier hour than its earliest ON
C37_Witness ==
    \E d \in mined :
        /\ rule_store[d].exists
        /\ \E day \in EventDays(d) :
              LET sessions == SessionsOn(d, day)
              IN  \E k \in 1..Len(sessions) :
                      /\ GivesStage(sessions[k])
                      /\ LastOffHour(sessions[k]) < FirstOnHour(sessions[k])

\* C38: no entry of a mined rule has more than MAX_STAGES_PER_DAY stages
C38_StagesPerDayAreCapped ==
    \A d \in Devices :
        LET rule == analyze_device_patterns_multi_stage(event_docs[d], now)
        IN  rule.exists =>
                \A day \in DOMAIN rule.schedules :
                    Len(rule.schedules[day]) <= MAX_STAGES_PER_DAY

\* the miner has written a rule for a device with more sessions that give
\* a stage on one day than the maximum
C38_Witness ==
    \E d \in mined :
        /\ rule_store[d].exists
        /\ \E day \in EventDays(d) :
              LET sessions == SessionsOn(d, day)
              IN  Cardinality({k \in 1..Len(sessions) :
                                  GivesStage(sessions[k])})
                      > MAX_STAGES_PER_DAY

(***************************************************************************)
(* Energy at a repeated ON.                                                *)
(***************************************************************************)
\* three times the energy of device d that memory m accounts for: the
\* usage recorded and the time since the checkpoint of a channel that is
\* high
Accounted3(m, d) ==
    3 * m.usage[d]
        + IF m.gpio[d] = "HIGH" /\ m.last_ts[d] \notin {None, NoKey}
          THEN MinuteEnergy3(d) * (m.now - m.last_ts[d][1])
          ELSE 0

\* C33: an ON that switch_device carries out for a device whose channel is
\* already high loses no energy: what is recorded and what is still to be
\* accrued at the next OFF amount to the same before and after (to within
\* the energy of one minute)
C33_RepeatedOnLosesNothing ==
    \A d \in Devices :
        gpio[d] = "HIGH" =>
            LET r == switch_device(Mem(TRUE), d, "ON", FALSE)
            IN  r.ret = "True" =>
                    Distance(Accounted3(r.m, d), Accounted3(Mem(TRUE), d))
                        < MinuteEnergy3(d)

\* a channel has been high for a minute or two, nothing is recorded for
\* it, and its checkpoint is the present: an ON has been repeated
C33_Witness ==
    \E d \in Devices :
        /\ gpio[d] = "HIGH" /\ firebase_connected
        /\ on_minutes[d] \in 1..(periodic_interval_minutes - 1)
        /\ daily_usage[d] = 0
        /\ device_last_energy_update_time[d] = At(now)
        /\ Len(event_history[d]) >= 2

(***************************************************************************)
(* Stages that share a boundary.                                           *)
(***************************************************************************)
Reversed(seq) == [i \in 1..Len(seq) |-> seq[Len(seq) + 1 - i]]

\* stage lists of one day with a shared boundary at hour 1: the end of a
\* stage is the start of another, or two stages have the same start
SharedBoundaryStages ==
    {<<Stage(0, 1), Stage(1, 2)>>, <<Stage(1, 2), Stage(1, 3)>>}

\* the tick of hour 1 of today over the stored rules with the rule of d
\* replaced by an enabled multi-stage rule with the stages given
TickWithStages(d, stages) ==
    execute_stored_rules(
        Mem(TRUE),
        [rule_store EXCEPT
            ![d] = NewRule_Enabled([day \in {current_day} |-> stages])],
        HourLabel(1), current_day)

\* C39: a tick at an hour that is a boundary of two stages of today leaves
\* the device in the same state whatever the order of the stages in the
\* list, and calls switch_device for the device at most once
C39_SharedBoundaryIsOrderFree ==
    \A d \in Devices, stages \in SharedBoundaryStages :
        firebase_connected /\ ~RuleSkips(Mem(TRUE), d) =>
            LET forth == TickWithStages(d, stages)
                back == TickWithStages(d, Reversed(stages))
            IN  /\ forth.m.gpio[d] = back.m.gpio[d]
                /\ CallCount(forth.calls, d, "ON")
                       + CallCount(forth.calls, d, "OFF") <= 1

\* the tick of hour 1 has executed a rule whose first stage ends and whose
\* second stage starts at 01:00: it has switched the device off, then on
C39_Witness ==
    \E d \in Devices :
        /\ rule_store[d].enabled /\ rule_store[d].multiStage
        /\ TodaysStages(rule_store[d], current_day)
              = <<Stage(0, 1), Stage(1, 2)>>
        /\ wall[2] = 1 /\ rule_calls[1].ticked
        /\ rule_calls[1].calls = <<<<d, "OFF">>, <<d, "ON">>>>
        /\ gpio[d] = "HIGH"

(***************************************************************************)
(* The event log under concurrent calls.                                   *)
(***************************************************************************)
\* C31: whenever no log_device_event call is in progress for a device, its
\* log holds at most the maximum number of entries, also after two calls
\* have run concurrently on a full log
C31_ConcurrentLogStaysBounded ==
    \A d \in Devices :
        (\A c \in log_calls : c.d # d) =>
            Len(event_history[d]) <= MaxEventHistory

\* two calls for one device have both read the full log
C31_Witness ==
    \E c1, c2 \in log_calls :
        /\ c1.thread # c2.thread /\ c1.d = c2.d
        /\ c1.pc = "read" /\ c2.pc = "read"
        /\ Len(event_history[c1.d]) = MaxEventHistory
        /\ c1.event_docs = event_history[c1.d]
        /\ c2.event_docs = event_history[c1.d]

(***************************************************************************)
(* Energy accrual under interleaving.                                      *)
(***************************************************************************)
\* no thread of the device is between its checkpoint read and its last
\* write
AccrualQuiet == \A t \in DOMAIN energy_threads : energy_threads[t].pc = "sleep"

\* C32: under every interleaving of the accrual threads and the OFF, once
\* the device is off and all threads are at rest the usage recorded is the
\* energy of the time its channel was high (to within the energy of one
\* minute), and the checkpoint is never set while the on-timestamp is
\* cleared
C32_AccrualIsRaceFree ==
    /\ device_on_timestamps[AccrualDevice] = None =>
          device_last_energy_update_time[AccrualDevice] = None
    /\ gpio[AccrualDevice] = "LOW" /\ AccrualQuiet =>
          Distance(3 * daily_usage[AccrualDevice],
                   MinuteEnergy3(AccrualDevice) * on_minutes[AccrualDevice])
              < MinuteEnergy3(AccrualDevice)

\* an accrual thread and the OFF have both computed energy from the same
\* checkpoint and neither has written yet
C32_Witness ==
    /\ OffThread \in DOMAIN energy_threads
    /\ energy_threads[OffThread].pc = "get"
    /\ \E t \in DOMAIN energy_threads \cap TaskThreads :
          /\ energy_threads[t].pc = "get"
          /\ energy_threads[t].energy = energy_threads[OffThread].energy
          /\ energy_threads[t].energy > 0

(***************************************************************************)
(* The MQTT bridge.                                                        *)
(***************************************************************************)
\* a status message that repeats the last MQTT state changes nothing
DuplicateIgnored ==
    \A d \in BridgeDevices, raw \in RawPayloads, up \in BOOLEAN :
        Decoded(raw) = last_mqtt_states[d] =>
            on_message(BridgeMem, d, raw, up) = BridgeMem

\* a change of the real-time store to the last MQTT state is not published
SameStateNotPublished ==
    \A d \in BridgeDevices, origin \in {"stored", "bridge", "remote"} :
        rtdb_listener(BridgeMem, d,
                      [data |-> last_mqtt_states[d], origin |-> origin])
            = BridgeMem

\* energy is credited for ON reports that were handled, once for each at
\* most, and a step credits energy only when an OFF report follows an ON
CreditedOncePerOn ==
    \A d \in BridgeDevices :
        /\ \A i, j \in 1..Len(bridge_usage[d]) :
              bridge_usage[d][i] = bridge_usage[d][j] => i = j
        /\ \A i \in 1..Len(bridge_usage[d]) :
              bridge_usage[d][i] \in 1..bridge_ons[d]
        /\ \A raw \in RawPayloads, up \in BOOLEAN :
              on_message(BridgeMem, d, raw, up).usage[d] # bridge_usage[d] =>
                  /\ Decoded(raw) = "OFF"
                  /\ last_mqtt_states[d] = "ON"

\* no command published is a change that the bridge itself wrote for a
\* status report
NeverEchoed ==
    \A d \in BridgeDevices :
        \A i \in 1..Len(mqtt_control[d]) : mqtt_control[d][i].origin # "bridge"

\* C40: a status message equal to the last MQTT state is ignored, a change
\* of the real-time store equal to the last MQTT state is not published,
\* energy is credited only on an OFF that follows an ON and once per ON at
\* most, and a state reported by a device is never published back to it
\* as a command
C40_BridgeBreaksTheLoop ==
    /\ DuplicateIgnored
    /\ SameStateNotPublished
    /\ CreditedOncePerOn
    /\ NeverEchoed

\* a device has reported ON and then OFF, and the change of the first
\* report has not reached the listener yet
C40_Witness ==
    \E d \in BridgeDevices :
        /\ last_mqtt_states[d] = "OFF"
        /\ bridge_usage[d] # <<>>
        /\ rtdb_events[d] # <<>>
        /\ Head(rtdb_events[d]) = [data |-> "ON", origin |-> "bridge"]

====
